---- MODULE Spec2Model ----
(***************************************************************************)
(* A model of the DRF (Device Request Format) parser and canonical         *)
(* renderer of acsys-cli: src/src/drf/{mod,device,prop_field,range,event}. *)
(*                                                                         *)
(* Texts are strings; a parser is an operator from the remaining input to  *)
(* a parse result.  The combine library's results are kept apart as the    *)
(* library keeps them: a result is a success or an error, and it is either *)
(* "committed" (the parser consumed input) or "peek" (it consumed none).   *)
(* choice/or/optional recover only from a peek error; attempt turns a      *)
(* committed error into a peek error.                                      *)
(***************************************************************************)
EXTENDS Integers, Sequences, FiniteSets, TLC

VARIABLES text, stage, req, canon, req2, canon2

vars == <<text, stage, req, canon, req2, canon2>>

-----------------------------------------------------------------------------
(* Characters and character classes (combine::parser::char).               *)

Digits == {"0", "1", "2", "3", "4", "5", "6", "7", "8", "9"}

UpperLetters == "ABCDEFGHIJKLMNOPQRSTUVWXYZ"

LowerLetters == "abcdefghijklmnopqrstuvwxyz"

CharsOf(s) == {SubSeq(s, i, i) : i \in 1..Len(s)}

Letters == CharsOf(UpperLetters) \cup CharsOf(LowerLetters)

HexDigits == Digits \cup CharsOf("abcdefABCDEF")

AlphaNum == Letters \cup Digits

\* str::to_uppercase on one character of the model's (ASCII) alphabet
ToUpperChar(ch) ==
    IF \E i \in 1..26 : SubSeq(LowerLetters, i, i) = ch
    THEN LET i == CHOOSE j \in 1..26 : SubSeq(LowerLetters, j, j) = ch
         IN  SubSeq(UpperLetters, i, i)
    ELSE ch

RECURSIVE to_uppercase(_)
to_uppercase(s) ==
    IF s = "" THEN "" ELSE ToUpperChar(Head(s)) \o to_uppercase(Tail(s))

\* the length of the longest prefix of s whose characters are all in class
RECURSIVE RunLen(_, _)
RunLen(s, class) ==
    IF s = "" \/ Head(s) \notin class THEN 0 ELSE 1 + RunLen(Tail(s), class)

Drop(s, n) == SubSeq(s, n + 1, Len(s))

Take(s, n) == SubSeq(s, 1, n)

StartsWith(s, ch) == s # "" /\ Head(s) = ch

-----------------------------------------------------------------------------
(* Option<T>                                                               *)

None == [some |-> FALSE]

Some(x) == [some |-> TRUE, v |-> x]

unwrap_or(o, d) == IF o.some THEN o.v ELSE d

-----------------------------------------------------------------------------
(* 32-bit unsigned values.  TLC's integers are 32-bit signed, so a u32 is  *)
(* kept as its two 16-bit halves <<hi, lo>>, value hi * 2^16 + lo.         *)

Half == 2^16

U32Max == <<Half - 1, Half - 1>>

U16Max == Half - 1

W(n) == <<n \div Half, n % Half>>

WLt(a, b) == a[1] < b[1] \/ (a[1] = b[1] /\ a[2] < b[2])

WLeq(a, b) == a = b \/ WLt(a, b)

\* a - b for a >= b
WSub(a, b) ==
    IF a[2] >= b[2] THEN <<a[1] - b[1], a[2] - b[2]>>
    ELSE <<a[1] - b[1] - 1, a[2] + Half - b[2]>>

\* the value as an integer, for values below 2^31
WInt(a) == a[1] * Half + a[2]

\* a * k for a small factor k (k <= 1000); hi >= 2^16 tells an overflow
WMulSmall(a, k) ==
    LET lo == a[2] * k
    IN  <<a[1] * k + (lo \div Half), lo % Half>>

WAddSmall(a, d) ==
    LET lo == a[2] + d
    IN  <<a[1] + (lo \div Half), lo % Half>>

WFits(a) == a[1] < Half

\* a divided by 10: <<quotient, remainder>>
WDivMod10(a) ==
    LET t == (a[1] % 10) * Half + a[2]
    IN  <<(<<a[1] \div 10, t \div 10>>), t % 10>>

DigitVal(ch) == CHOOSE d \in 0..9 : SubSeq("0123456789", d + 1, d + 1) = ch

DigitChar(d) == SubSeq("0123456789ABCDEF", d + 1, d + 1)

HexVal(ch) ==
    CHOOSE d \in 0..15 : SubSeq("0123456789ABCDEF", d + 1, d + 1) = ToUpperChar(ch)

-----------------------------------------------------------------------------
(* Conversions between digit text and numbers.                             *)

\* the checked accumulation of str::parse::<u16/u32>: None on overflow of max
RECURSIVE DecAcc(_, _, _)
DecAcc(s, acc, max) ==
    IF s = "" THEN Some(acc)
    ELSE LET n == WAddSmall(WMulSmall(acc, 10), DigitVal(Head(s)))
         IN  IF WLeq(n, max) THEN DecAcc(Tail(s), n, max) ELSE None

\* "digits".parse::<u32>()
from_str_u32(s) == DecAcc(s, W(0), U32Max)

\* "digits".parse::<u16>()
from_str_u16(s) ==
    LET r == DecAcc(s, W(0), W(U16Max))
    IN  IF r.some THEN Some(WInt(r.v)) ELSE None

\* u16::from_str_radix(v, 16)
RECURSIVE HexAcc(_, _)
HexAcc(s, acc) ==
    IF s = "" THEN Some(acc)
    ELSE LET n == acc * 16 + HexVal(Head(s))
         IN  IF n <= U16Max THEN HexAcc(Tail(s), n) ELSE None

from_str_radix_16(s) == HexAcc(s, 0)

\* format!("{}", v) of a u32
RECURSIVE fmt_u32(_)
fmt_u32(a) ==
    LET qr == WDivMod10(a)
    IN  IF qr[1] = W(0) THEN DigitChar(qr[2])
        ELSE fmt_u32(qr[1]) \o DigitChar(qr[2])

\* format!("{}", v) of a u16
fmt_u16(n) == fmt_u32(W(n))

\* format!("{:X}", v) of a u16
RECURSIVE fmt_hex(_)
fmt_hex(n) ==
    IF n < 16 THEN DigitChar(n) ELSE fmt_hex(n \div 16) \o DigitChar(n % 16)

\* the u32 a decimal literal denotes (for writing constants of the model)
U32(s) == from_str_u32(s).v

-----------------------------------------------------------------------------
(* Parse results and the combinators of the combine library.               *)

\* v bound to x in F(x): the value is computed once
Let(v, F(_)) == CHOOSE y \in {F(x) : x \in {v}} : TRUE

Ok(v, rest, c) == [ok |-> TRUE, c |-> c, v |-> v, rest |-> rest, msg |-> ""]

Err(c, msg) == [ok |-> FALSE, c |-> c, v |-> None, rest |-> "", msg |-> msg]

\* what the closure of an and_then returns: Ok(v) or Err(message)
Accept(v) == [ok |-> TRUE, v |-> v, msg |-> ""]

Reject(msg) == [ok |-> FALSE, v |-> None, msg |-> msg]

\* char::char(ch)
Char(s, ch) ==
    IF StartsWith(s, ch) THEN Ok(ch, Tail(s), TRUE) ELSE Err(FALSE, "unexpected")

\* one_of(class) and the single-character class parsers
OneOf(s, class) ==
    IF s # "" /\ Head(s) \in class THEN Ok(Head(s), Tail(s), TRUE)
    ELSE Err(FALSE, "unexpected")

\* char::string(word)
String(s, word) ==
    IF Len(s) >= Len(word) /\ Take(s, Len(word)) = word
    THEN Ok(word, Drop(s, Len(word)), TRUE)
    ELSE Err(s # "" /\ Head(s) = Head(word), "unexpected")

\* many1(class): the longest non-empty run
Many1(s, class) ==
    Let(RunLen(s, class),
        LAMBDA n : IF n = 0 THEN Err(FALSE, "unexpected")
                   ELSE Ok(Take(s, n), Drop(s, n), TRUE))

\* value(v): succeeds without consuming
Value(s, v) == Ok(v, s, FALSE)

\* a sequence: r, then the parser K builds from r's result (K reads the
\* input r left); the sequence has consumed input when either has
Then(r, K(_)) ==
    Let(r, LAMBDA x : IF x.ok
                      THEN Let(K(x), LAMBDA y : [y EXCEPT !.c = x.c \/ y.c])
                      ELSE x)

\* p.map(f)
Map(r, F(_)) == Let(r, LAMBDA x : IF x.ok THEN [x EXCEPT !.v = F(x.v)] ELSE x)

\* p.with(value(v))
With(r, v) == Let(r, LAMBDA x : IF x.ok THEN [x EXCEPT !.v = v] ELSE x)

\* p.and_then(f): an error of f is an error of the parser, committed when p
\* consumed input
AndThen(r, F(_)) ==
    Let(r, LAMBDA x :
        IF x.ok
        THEN Let(F(x.v), LAMBDA y : IF y.ok THEN [x EXCEPT !.v = y.v]
                                    ELSE Err(x.c, y.msg))
        ELSE x)

\* optional(p) on input s, r being p's result on s: None only after an
\* error that consumed nothing
Optional(r, s) ==
    Let(r, LAMBDA x : IF x.ok THEN [x EXCEPT !.v = Some(x.v)]
                      ELSE IF x.c THEN x ELSE Ok(None, s, FALSE))

\* attempt(p): an error never counts as having consumed input
Attempt(r) == Let(r, LAMBDA x : IF x.ok THEN x ELSE [x EXCEPT !.c = FALSE])

\* p.or(q), choice((p, q)): q is tried only after p failed without consuming
Or(r1, r2) == Let(r1, LAMBDA x : IF x.ok \/ x.c THEN x ELSE r2)

-----------------------------------------------------------------------------
(* Properties (mod.rs) and their canonical keywords.                       *)

\* Property::Reading(f), Setting(f), Status(f), Analog(f), Digital(f)
Prop(kind, field) == [kind |-> kind, field |-> field]

\* Property::Control, Description, Index, LongName, AlarmList
Plain(kind) == [kind |-> kind]

ReadingField_default == "Scaled"

SettingField_default == "Scaled"

StatusField_default == "All"

AnalogField_default == "All"

DigitalField_default == "All"

FieldKinds == {"Reading", "Setting", "Status", "Analog", "Digital"}

PlainKinds == {"Control", "Description", "Index", "LongName", "AlarmList"}

ReadingField_canonical(f) ==
    CASE f = "Raw" -> ".RAW" [] f = "Primary" -> ".PRIMARY" [] f = "Scaled" -> ".SCALED"

SettingField_canonical(f) ==
    CASE f = "Raw" -> ".RAW" [] f = "Primary" -> ".PRIMARY" [] f = "Scaled" -> ".SCALED"

StatusField_canonical(f) ==
    CASE f = "Raw" -> ".RAW" [] f = "All" -> ".ALL" [] f = "Text" -> ".TEXT"
      [] f = "ExtText" -> ".EXTENDED_TEXT" [] f = "On" -> ".ON"
      [] f = "Ready" -> ".READY" [] f = "Remote" -> ".REMOTE"
      [] f = "Positive" -> ".POSITIVE" [] f = "Ramp" -> ".RAMP"

AnalogField_canonical(f) ==
    CASE f = "Raw" -> ".RAW" [] f = "All" -> ".ALL" [] f = "Text" -> ".TEXT"
      [] f = "Min" -> ".MIN" [] f = "Max" -> ".MAX" [] f = "Nom" -> ".NOM"
      [] f = "Tol" -> ".TOL" [] f = "RawMin" -> ".RAW_MIN"
      [] f = "RawMax" -> ".RAW_MAX" [] f = "RawNom" -> ".RAW_NOM"
      [] f = "RawTol" -> ".RAW_TOL" [] f = "Enable" -> ".ALARM_ENABLE"
      [] f = "Status" -> ".ALARM_STATUS" [] f = "TriesNeeded" -> ".TRIES_NEEDED"
      [] f = "TriesNow" -> ".TRIES_NOW" [] f = "FTD" -> ".ALARM_FTD"
      [] f = "Abort" -> ".ABORT" [] f = "AbortInhibit" -> ".ABORT_INHIBIT"
      [] f = "Flags" -> ".FLAGS"

DigitalField_canonical(f) ==
    CASE f = "Raw" -> ".RAW" [] f = "All" -> ".ALL" [] f = "Text" -> ".TEXT"
      [] f = "Nom" -> ".NOM" [] f = "Mask" -> ".MASK"
      [] f = "Enable" -> ".ALARM_ENABLE" [] f = "Status" -> ".ALARM_STATUS"
      [] f = "TriesNeeded" -> ".TRIES_NEEDED" [] f = "TriesNow" -> ".TRIES_NOW"
      [] f = "FTD" -> ".ALARM_FTD" [] f = "Abort" -> ".ABORT"
      [] f = "AbortInhibit" -> ".ABORT_INHIBIT" [] f = "Flags" -> ".FLAGS"

\* Property::canonical: <<property keyword, field keyword>>
Property_canonical(p) ==
    CASE p.kind = "Reading" -> <<".READING", ReadingField_canonical(p.field)>>
      [] p.kind = "Setting" -> <<".SETTING", SettingField_canonical(p.field)>>
      [] p.kind = "Status" -> <<".STATUS", StatusField_canonical(p.field)>>
      [] p.kind = "Control" -> <<".CONTROL", "">>
      [] p.kind = "Analog" -> <<".ANALOG", AnalogField_canonical(p.field)>>
      [] p.kind = "Digital" -> <<".DIGITAL", DigitalField_canonical(p.field)>>
      [] p.kind = "Description" -> <<".DESCRIPTION", "">>
      [] p.kind = "Index" -> <<".INDEX", "">>
      [] p.kind = "LongName" -> <<".LONG_NAME", "">>
      [] p.kind = "AlarmList" -> <<".ALARM_LIST_NAME", "">>

-----------------------------------------------------------------------------
(* The device and qualifier parser (device.rs).                            *)

\* parse_prop_symbol with the properties of '_' and '|' exchanged
parse_prop_symbol_exchanged(s) ==
    Or(With(Char(s, ":"), Prop("Reading", ReadingField_default)),
    Or(With(Char(s, "?"), Prop("Reading", ReadingField_default)),
    Or(With(Char(s, "_"), Prop("Status", StatusField_default)),
    Or(With(Char(s, "|"), Prop("Setting", SettingField_default)),
    Or(With(Char(s, "&"), Plain("Control")),
    Or(With(Char(s, "@"), Prop("Analog", AnalogField_default)),
    Or(With(Char(s, "$"), Prop("Digital", DigitalField_default)),
       With(Char(s, "~"), Plain("Description")))))))))

\* The qualifier's property.  device.rs writes the sub-field of the five
\* families that have one as None; with the Property type of mod.rs that
\* place holds the family's default() field, as the request tests of mod.rs
\* expect ("M:OUTTMP" renders .READING.SCALED, "M|OUTTMP[]" .STATUS[].ALL).
parse_prop_symbol(s) ==
    Or(With(Char(s, ":"), Prop("Reading", ReadingField_default)),
    Or(With(Char(s, "?"), Prop("Reading", ReadingField_default)),
    Or(With(Char(s, "_"), Prop("Setting", SettingField_default)),
    Or(With(Char(s, "|"), Prop("Status", StatusField_default)),
    Or(With(Char(s, "&"), Plain("Control")),
    Or(With(Char(s, "@"), Prop("Analog", AnalogField_default)),
    Or(With(Char(s, "$"), Prop("Digital", DigitalField_default)),
       With(Char(s, "~"), Plain("Description")))))))))

\* valid_characters without the colon
valid_characters_no_colon == AlphaNum \cup {"_", "-", "<", ">", ";"}

valid_characters == AlphaNum \cup {"_", "-", ":", "<", ">", ";"}

\* Device(format!("{}:{}", character, device))
Device(character, device) == character \o ":" \o device

\* parse_di led by any digit
parse_di_any_digit(s) ==
    Then(OneOf(s, Digits), LAMBDA character :
    Then(parse_prop_symbol(character.rest), LAMBDA prop :
    Then(Many1(prop.rest, Digits), LAMBDA device :
        Value(device.rest,
              [device |-> Device(character.v, device.v), prop |-> prop.v]))))

parse_di(s) ==
    Then(Char(s, "0"), LAMBDA character :
    Then(parse_prop_symbol(character.rest), LAMBDA prop :
    Then(Many1(prop.rest, Digits), LAMBDA device :
        Value(device.rest,
              [device |-> Device(character.v, device.v), prop |-> prop.v]))))

parse_string(s) ==
    Then(OneOf(s, Letters), LAMBDA character :
    Then(parse_prop_symbol(character.rest), LAMBDA prop :
    Then(Many1(prop.rest, valid_characters), LAMBDA device :
        Value(device.rest,
              [device |-> Device(character.v, device.v), prop |-> prop.v]))))

device_parser(s) == Or(parse_di(s), parse_string(s))

-----------------------------------------------------------------------------
(* The property/field resolver (prop_field.rs).                            *)

\* the first entry of key_values whose key equals v
lookup(v, key_values) ==
    IF \E i \in 1..Len(key_values) : key_values[i][1] = v
    THEN LET i == CHOOSE j \in 1..Len(key_values) :
                      /\ key_values[j][1] = v
                      /\ \A k \in 1..(j - 1) : key_values[k][1] # v
         IN  Some(key_values[i][2])
    ELSE None

READING_FIELDS ==
    << <<"COMMON", "Scaled">>, <<"PRIMARY", "Primary">>, <<"RAW", "Raw">>,
       <<"SCALED", "Scaled">>, <<"VOLTS", "Primary">> >>

SETTING_FIELDS ==
    << <<"COMMON", "Scaled">>, <<"PRIMARY", "Primary">>, <<"RAW", "Raw">>,
       <<"SCALED", "Scaled">>, <<"VOLTS", "Primary">> >>

STATUS_FIELDS ==
    << <<"ALL", "All">>, <<"EXTENDED_TEXT", "ExtText">>, <<"ON", "On">>,
       <<"POSITIVE", "Positive">>, <<"RAMP", "Ramp">>, <<"RAW", "Raw">>,
       <<"READY", "Ready">>, <<"REMOTE", "Remote">>, <<"TEXT", "Text">> >>

ANALOG_FIELDS ==
    << <<"ABORT", "Abort">>, <<"ABORT_INHIBIT", "AbortInhibit">>,
       <<"ALARM_ENABLE", "Enable">>, <<"ALARM_FTD", "FTD">>,
       <<"ALARM_STATUS", "Status">>, <<"ALL", "All">>, <<"ENABLE", "Enable">>,
       <<"FLAGS", "Flags">>, <<"FTD", "FTD">>, <<"MAX", "Max">>,
       <<"MAXIMUM", "Max">>, <<"MIN", "Min">>, <<"MINIMUM", "Min">>,
       <<"NOM", "Nom">>, <<"NOMINAL", "Nom">>, <<"RAW", "Raw">>,
       <<"RAW_MAX", "RawMax">>, <<"RAWMAX", "RawMax">>,
       <<"RAW_MIN", "RawMin">>, <<"RAWMIN", "RawMin">>,
       <<"RAW_NOM", "RawNom">>, <<"RAWNOM", "RawNom">>,
       <<"RAW_TOL", "RawTol">>, <<"RAWTOL", "RawTol">>,
       <<"STATUS", "Status">>, <<"TEXT", "Text">>, <<"TOL", "Tol">>,
       <<"TOLERANCE", "Tol">>, <<"TRIES_NEEDED", "TriesNeeded">>,
       <<"TRIES_NOW", "TriesNow">> >>

DIGITAL_FIELDS ==
    << <<"ABORT", "Abort">>, <<"ABORT_INHIBIT", "AbortInhibit">>,
       <<"ALARM_ENABLE", "Enable">>, <<"ALARM_FTD", "FTD">>,
       <<"ALARM_STATUS", "Status">>, <<"ALL", "All">>, <<"ENABLE", "Enable">>,
       <<"FLAGS", "Flags">>, <<"FTD", "FTD">>, <<"NOM", "Nom">>,
       <<"NOMINAL", "Nom">>, <<"MASK", "Mask">>, <<"RAW", "Raw">>,
       <<"STATUS", "Status">>, <<"TEXT", "Text">>,
       <<"TRIES_NEEDED", "TriesNeeded">>, <<"TRIES_NOW", "TriesNow">> >>

\* the field-name table parse_field consults for a family with sub-fields
FIELDS(kind) ==
    CASE kind = "Reading" -> READING_FIELDS
      [] kind = "Setting" -> SETTING_FIELDS
      [] kind = "Status" -> STATUS_FIELDS
      [] kind = "Analog" -> ANALOG_FIELDS
      [] kind = "Digital" -> DIGITAL_FIELDS

NameChars == Letters \cup {"_"}

\* the closure of parse_field on the name v, folded to upper case
resolve_field(use_prop, v) ==
    IF use_prop.kind \in PlainKinds THEN Reject("property has no fields")
    ELSE Let(lookup(v, FIELDS(use_prop.kind)),
             LAMBDA f : IF f.some THEN Accept(Prop(use_prop.kind, f.v))
                        ELSE Reject("invalid field"))

\* parse_field(use_prop): the ".FIELD" part of a request
parse_field(use_prop, s) ==
    Then(Char(s, "."), LAMBDA dot :
        AndThen(Many1(dot.rest, NameChars),
                LAMBDA v : resolve_field(use_prop, to_uppercase(v))))

PROPERTIES ==
    << <<"AA", Prop("Analog", AnalogField_default)>>,
       <<"ALARM_LIST_NAME", Plain("AlarmList")>>,
       <<"ANALOG_ALARM", Prop("Analog", AnalogField_default)>>,
       <<"ANALOG", Prop("Analog", AnalogField_default)>>,
       <<"BASIC_CONTROL", Plain("Control")>>,
       <<"BASIC_STATUS", Prop("Status", StatusField_default)>>,
       <<"CONTROL", Plain("Control")>>,
       <<"CTRL", Plain("Control")>>,
       <<"DA", Prop("Digital", DigitalField_default)>>,
       <<"DESC", Plain("Description")>>,
       <<"DESCRIPTION", Plain("Description")>>,
       <<"DIGITAL_ALARM", Prop("Digital", DigitalField_default)>>,
       <<"DIGITAL", Prop("Digital", DigitalField_default)>>,
       <<"INDEX", Plain("Index")>>,
       <<"LNGNAM", Plain("LongName")>>,
       <<"LONG_NAME", Plain("LongName")>>,
       <<"LSTNAM", Plain("AlarmList")>>,
       <<"PRALNM", Plain("AlarmList")>>,
       <<"PRANAB", Prop("Analog", AnalogField_default)>>,
       <<"PRBCTL", Plain("Control")>>,
       <<"PRBSTS", Prop("Status", StatusField_default)>>,
       <<"PRDABL", Prop("Digital", DigitalField_default)>>,
       <<"PRDESC", Plain("Description")>>,
       <<"PRLNAM", Plain("LongName")>>,
       <<"PRREAD", Prop("Reading", ReadingField_default)>>,
       <<"PRSET", Prop("Setting", SettingField_default)>>,
       <<"READ", Prop("Reading", ReadingField_default)>>,
       <<"READING", Prop("Reading", ReadingField_default)>>,
       <<"SET", Prop("Setting", SettingField_default)>>,
       <<"SETTING", Prop("Setting", SettingField_default)>>,
       <<"STATUS", Prop("Status", StatusField_default)>>,
       <<"STS", Prop("Status", StatusField_default)>> >>

\* the closure of parse_property without the match of the two properties
resolve_property_any_family(qual_prop, v) ==
    Let(lookup(v, PROPERTIES),
        LAMBDA property : IF property.some THEN Accept(property.v)
                          ELSE Reject("unknown property"))

\* the closure of parse_property keeping the qualifier's property for a
\* name the table does not hold
resolve_property_lenient(qual_prop, v) ==
    Let(lookup(v, PROPERTIES),
        LAMBDA property :
            IF property.some
            THEN IF qual_prop.kind = "Reading" \/ qual_prop.kind = property.v.kind
                 THEN Accept(property.v)
                 ELSE Reject("mismatched properties")
            ELSE Accept(qual_prop))

\* the closure of parse_property on the name v, folded to upper case
resolve_property(qual_prop, v) ==
    Let(lookup(v, PROPERTIES),
        LAMBDA property :
            IF property.some
            THEN IF qual_prop.kind = "Reading" \/ qual_prop.kind = property.v.kind
                 THEN Accept(property.v)
                 ELSE Reject("mismatched properties")
            ELSE Reject("unknown property"))

\* parse_property looking the name up as it is written
parse_property_case_sensitive(qual_prop, s) ==
    Then(Char(s, "."), LAMBDA dot :
        AndThen(Many1(dot.rest, NameChars),
                LAMBDA v : resolve_property(qual_prop, v)))

\* parse_property(qual_prop): the ".PROPERTY" part of a request
parse_property(qual_prop, s) ==
    Then(Char(s, "."), LAMBDA dot :
        AndThen(Many1(dot.rest, NameChars),
                LAMBDA v : resolve_property(qual_prop, to_uppercase(v))))

-----------------------------------------------------------------------------
(* Ranges (mod.rs) and the range parser (range.rs).                        *)

Full == [kind |-> "Full"]

\* Range::Array: start_index a u16, end_index an Option<u16>
Array(s, e) == [kind |-> "Array", start_index |-> s, end_index |-> e]

\* Range::Raw: offset a u32, length an Option<u32>
Raw(o, l) == [kind |-> "Raw", offset |-> o, length |-> l]

\* Range::canonical writing both indices of a one-element array
Range_canonical_uncollapsed(r) ==
    CASE r.kind = "Full" -> "[]"
      [] r.kind = "Array" ->
            IF r.end_index.some
            THEN IF r.start_index = 0 /\ r.end_index.v = 0 THEN ""
                 ELSE "[" \o fmt_u16(r.start_index) \o ":"
                          \o fmt_u16(r.end_index.v) \o "]"
            ELSE "[" \o fmt_u16(r.start_index) \o ":]"
      [] r.kind = "Raw" ->
            IF r.length.some
            THEN IF r.length.v = W(1) THEN "{" \o fmt_u32(r.offset) \o "}"
                 ELSE "{" \o fmt_u32(r.offset) \o ":" \o fmt_u32(r.length.v) \o "}"
            ELSE "{" \o fmt_u32(r.offset) \o ":}"

\* Range::canonical
Range_canonical(r) ==
    CASE r.kind = "Full" -> "[]"
      [] r.kind = "Array" ->
            IF r.end_index.some
            THEN IF r.start_index = 0 /\ r.end_index.v = 0 THEN ""
                 ELSE IF r.start_index = r.end_index.v
                 THEN "[" \o fmt_u16(r.start_index) \o "]"
                 ELSE "[" \o fmt_u16(r.start_index) \o ":"
                          \o fmt_u16(r.end_index.v) \o "]"
            ELSE "[" \o fmt_u16(r.start_index) \o ":]"
      [] r.kind = "Raw" ->
            IF r.length.some
            THEN IF r.length.v = W(1) THEN "{" \o fmt_u32(r.offset) \o "}"
                 ELSE "{" \o fmt_u32(r.offset) \o ":" \o fmt_u32(r.length.v) \o "}"
            ELSE "{" \o fmt_u32(r.offset) \o ":}"

\* the closure of parse_int::<u16> on the digits v
convert_u16(v) ==
    Let(from_str_u16(v),
        LAMBDA x : IF x.some THEN Accept(x.v)
                   ELSE Reject("number too large to fit in target type"))

\* the closure of parse_int::<u32> on the digits v
convert_u32(v) ==
    Let(from_str_u32(v),
        LAMBDA x : IF x.some THEN Accept(x.v)
                   ELSE Reject("number too large to fit in target type"))

\* parse_int::<u16>: a run of digits converted to a u16, if possible
parse_int_u16(s) == AndThen(Many1(s, Digits), convert_u16)

\* parse_int::<u32>: a run of digits converted to a u32, if possible
parse_int_u32(s) == AndThen(Many1(s, Digits), convert_u32)

\* the match of parse_array_range's multi_element without the case
\* (Some(0), None)
array_combine_open_zero(v) ==
    IF ~v[1].some /\ ~v[2].some THEN Accept(Full)
    ELSE IF v[1].some /\ ~v[2].some THEN Accept(Array(v[1].v, None))
    ELSE IF ~v[1].some THEN Accept(Array(0, Some(v[2].v)))
    ELSE IF v[1].v <= v[2].v THEN Accept(Array(v[1].v, Some(v[2].v)))
    ELSE Reject("bad range")

\* the match of parse_array_range's multi_element asking for s < e
array_combine_strict(v) ==
    IF ~v[1].some /\ ~v[2].some THEN Accept(Full)
    ELSE IF v[1].some /\ ~v[2].some
    THEN IF v[1].v = 0 THEN Accept(Full) ELSE Accept(Array(v[1].v, None))
    ELSE IF ~v[1].some THEN Accept(Array(0, Some(v[2].v)))
    ELSE IF v[1].v < v[2].v THEN Accept(Array(v[1].v, Some(v[2].v)))
    ELSE Reject("bad range")

\* the match of parse_array_range's multi_element on v = (start, end)
array_combine(v) ==
    IF ~v[1].some /\ ~v[2].some THEN Accept(Full)
    ELSE IF v[1].some /\ ~v[2].some
    THEN IF v[1].v = 0 THEN Accept(Full) ELSE Accept(Array(v[1].v, None))
    ELSE IF ~v[1].some THEN Accept(Array(0, Some(v[2].v)))
    ELSE IF v[1].v <= v[2].v THEN Accept(Array(v[1].v, Some(v[2].v)))
    ELSE Reject("bad range")

\* the match of parse_byte_range's multi_element without the test of
\* offset against u32::MAX - length
byte_combine_unchecked(v) ==
    IF ~v[1].some /\ ~v[2].some THEN Accept(Full)
    ELSE IF v[1].some /\ ~v[2].some
    THEN IF v[1].v = W(0) THEN Accept(Full) ELSE Accept(Raw(v[1].v, None))
    ELSE IF ~v[1].some
    THEN IF WLt(W(0), v[2].v) THEN Accept(Raw(W(0), Some(v[2].v)))
         ELSE Reject("bad length")
    ELSE IF WLt(W(0), v[2].v) THEN Accept(Raw(v[1].v, Some(v[2].v)))
    ELSE Reject("bad length")

\* the match of parse_byte_range's multi_element without the test of the
\* length against 0
byte_combine_any_length(v) ==
    IF ~v[1].some /\ ~v[2].some THEN Accept(Full)
    ELSE IF v[1].some /\ ~v[2].some
    THEN IF v[1].v = W(0) THEN Accept(Full) ELSE Accept(Raw(v[1].v, None))
    ELSE IF ~v[1].some THEN Accept(Raw(W(0), Some(v[2].v)))
    ELSE IF WLeq(v[1].v, WSub(U32Max, v[2].v))
    THEN Accept(Raw(v[1].v, Some(v[2].v)))
    ELSE Reject("bad range")

\* the match of parse_byte_range's multi_element without the case
\* (Some(0), None)
byte_combine_open_zero(v) ==
    IF ~v[1].some /\ ~v[2].some THEN Accept(Full)
    ELSE IF v[1].some /\ ~v[2].some THEN Accept(Raw(v[1].v, None))
    ELSE IF ~v[1].some
    THEN IF WLt(W(0), v[2].v) THEN Accept(Raw(W(0), Some(v[2].v)))
         ELSE Reject("bad length")
    ELSE IF WLt(W(0), v[2].v)
    THEN IF WLeq(v[1].v, WSub(U32Max, v[2].v))
         THEN Accept(Raw(v[1].v, Some(v[2].v)))
         ELSE Reject("bad range")
    ELSE Reject("bad length")

\* the match of parse_byte_range's multi_element on v = (offset, length)
byte_combine(v) ==
    IF ~v[1].some /\ ~v[2].some THEN Accept(Full)
    ELSE IF v[1].some /\ ~v[2].some
    THEN IF v[1].v = W(0) THEN Accept(Full) ELSE Accept(Raw(v[1].v, None))
    ELSE IF ~v[1].some
    THEN IF WLt(W(0), v[2].v) THEN Accept(Raw(W(0), Some(v[2].v)))
         ELSE Reject("bad length")
    ELSE IF WLt(W(0), v[2].v)
    THEN IF WLeq(v[1].v, WSub(U32Max, v[2].v))
         THEN Accept(Raw(v[1].v, Some(v[2].v)))
         ELSE Reject("bad range")
    ELSE Reject("bad length")

array_one_element(s) ==
    Then(parse_int_u16(s), LAMBDA v :
        With(Char(v.rest, "]"), Array(v.v, Some(v.v))))

\* (optional(parse_int()).skip(':'), optional(parse_int()).skip(']'))
array_pair(s) ==
    Then(Optional(parse_int_u16(s), s), LAMBDA o1 :
    Then(Char(o1.rest, ":"), LAMBDA c1 :
    Then(Optional(parse_int_u16(c1.rest), c1.rest), LAMBDA o2 :
        With(Char(o2.rest, "]"), <<o1.v, o2.v>>))))

array_multi_element(s) == AndThen(array_pair(s), array_combine)

parse_array_range(s) ==
    Then(Char(s, "["), LAMBDA open :
        Or(With(Char(open.rest, "]"), Full),
        Or(Attempt(array_one_element(open.rest)),
           Attempt(array_multi_element(open.rest)))))

byte_one_element(s) ==
    Then(parse_int_u32(s), LAMBDA v :
        With(Char(v.rest, "}"), Raw(v.v, Some(W(1)))))

\* (optional(parse_int()).skip(':'), optional(parse_int()).skip('}'))
byte_pair(s) ==
    Then(Optional(parse_int_u32(s), s), LAMBDA o1 :
    Then(Char(o1.rest, ":"), LAMBDA c1 :
    Then(Optional(parse_int_u32(c1.rest), c1.rest), LAMBDA o2 :
        With(Char(o2.rest, "}"), <<o1.v, o2.v>>))))

byte_multi_element(s) == AndThen(byte_pair(s), byte_combine)

parse_byte_range(s) ==
    Then(Char(s, "{"), LAMBDA open :
        Or(With(Char(open.rest, "}"), Full),
        Or(Attempt(byte_one_element(open.rest)),
           Attempt(byte_multi_element(open.rest)))))

\* range::parser with Range::Full for the absent range
range_parser_full(s) ==
    Or(parse_array_range(s),
    Or(parse_byte_range(s), Value(s, Full)))

\* range::parser: a bracket form, or the collapsed range when none starts
range_parser(s) ==
    Or(parse_array_range(s),
    Or(parse_byte_range(s), Value(s, Array(0, Some(0)))))

-----------------------------------------------------------------------------
(* Events (mod.rs) and the event parser (event.rs).                        *)

Never == [kind |-> "Never"]

Immediate == [kind |-> "Immediate"]

Default == [kind |-> "Default"]

Periodic(period, immediate, skip_dups) ==
    [kind |-> "Periodic", period |-> period, immediate |-> immediate,
     skip_dups |-> skip_dups]

Clock(event, clk_type, delay) ==
    [kind |-> "Clock", event |-> event, clk_type |-> clk_type, delay |-> delay]

State(device, value, delay, expr) ==
    [kind |-> "State", device |-> device, value |-> value, delay |-> delay,
     expr |-> expr]

ClockType_default == "Either"

StateOp_canonical(op) ==
    CASE op = "Eq" -> "=" [] op = "NEq" -> "!=" [] op = "GT" -> ">"
      [] op = "LT" -> "<" [] op = "LEq" -> "<=" [] op = "GEq" -> ">="
      [] op = "All" -> "*"

ClockType_canonical(ct) ==
    CASE ct = "Hardware" -> "H" [] ct = "Software" -> "S" [] ct = "Either" -> "E"

\* Event::canonical leaving out the flag of a periodic event when it is the
\* default
Event_canonical_implicit_flag(e) ==
    CASE e.kind = "Default" -> ""
      [] e.kind = "Never" -> "@N"
      [] e.kind = "Immediate" -> "@I"
      [] e.kind = "Periodic" ->
            "@" \o (IF e.skip_dups THEN "Q" ELSE "P") \o "," \o fmt_u32(e.period)
                \o "U" \o (IF e.immediate THEN "" ELSE ",FALSE")
      [] e.kind = "Clock" ->
            "@E," \o fmt_hex(e.event) \o "," \o ClockType_canonical(e.clk_type)
                  \o "," \o fmt_u32(e.delay) \o "U"
      [] e.kind = "State" ->
            "@S," \o fmt_u32(e.device) \o "," \o fmt_u16(e.value) \o ","
                  \o fmt_u32(e.delay) \o "U," \o StateOp_canonical(e.expr)

\* Event::canonical writing periods and delays without their unit
Event_canonical_unitless(e) ==
    CASE e.kind = "Default" -> ""
      [] e.kind = "Never" -> "@N"
      [] e.kind = "Immediate" -> "@I"
      [] e.kind = "Periodic" ->
            "@" \o (IF e.skip_dups THEN "Q" ELSE "P") \o "," \o fmt_u32(e.period)
                \o "," \o (IF e.immediate THEN "TRUE" ELSE "FALSE")
      [] e.kind = "Clock" ->
            "@E," \o fmt_hex(e.event) \o "," \o ClockType_canonical(e.clk_type)
                  \o "," \o fmt_u32(e.delay)
      [] e.kind = "State" ->
            "@S," \o fmt_u32(e.device) \o "," \o fmt_u16(e.value) \o ","
                  \o fmt_u32(e.delay) \o "," \o StateOp_canonical(e.expr)

\* Event::canonical
Event_canonical(e) ==
    CASE e.kind = "Default" -> ""
      [] e.kind = "Never" -> "@N"
      [] e.kind = "Immediate" -> "@I"
      [] e.kind = "Periodic" ->
            "@" \o (IF e.skip_dups THEN "Q" ELSE "P") \o "," \o fmt_u32(e.period)
                \o "U," \o (IF e.immediate THEN "TRUE" ELSE "FALSE")
      [] e.kind = "Clock" ->
            "@E," \o fmt_hex(e.event) \o "," \o ClockType_canonical(e.clk_type)
                  \o "," \o fmt_u32(e.delay) \o "U"
      [] e.kind = "State" ->
            "@S," \o fmt_u32(e.device) \o "," \o fmt_u16(e.value) \o ","
                  \o fmt_u32(e.delay) \o "U," \o StateOp_canonical(e.expr)

\* a / 1000 (integer division of a u32)
WDiv1000(a) ==
    LET t == (a[1] % 1000) * Half + a[2]
    IN  <<a[1] \div 1000, t \div 1000>>

\* a * 1000 in u32 arithmetic (the product wraps at 2^32)
WMul1000(a) ==
    LET p == WMulSmall(a, 1000)
    IN  <<p[1] % Half, p[2]>>

\* scale_rate without the tests against u32::MAX: the products wrap
scale_rate_wrapping(v, suf) ==
    LET u == IF suf.some THEN ToUpperChar(suf.v) ELSE "M"
    IN  CASE u = "S" -> WMul1000(WMul1000(v))
          [] u = "M" -> WMul1000(v)
          [] u = "U" -> v
          [] u = "K" ->
                IF v = W(0) THEN U32Max
                ELSE IF WLt(W(1000), v) THEN W(1)
                ELSE W(1000 \div WInt(v))
          [] u = "H" ->
                IF v = W(0) THEN U32Max
                ELSE IF WLt(W(1000000), v) THEN W(1)
                ELSE W(1000000 \div WInt(v))

\* scale_rate without the tests of a frequency against its base: the
\* quotient of a frequency above the base is 0
scale_rate_unfloored(v, suf) ==
    LET u == IF suf.some THEN ToUpperChar(suf.v) ELSE "M"
    IN  CASE u = "S" ->
                IF WLt(WDiv1000(WDiv1000(U32Max)), v) THEN U32Max
                ELSE WMul1000(WMul1000(v))
          [] u = "M" ->
                IF WLt(WDiv1000(U32Max), v) THEN U32Max ELSE WMul1000(v)
          [] u = "U" -> v
          [] u = "K" ->
                IF v = W(0) THEN U32Max
                ELSE IF WLt(W(1000), v) THEN W(0)
                ELSE W(1000 \div WInt(v))
          [] u = "H" ->
                IF v = W(0) THEN U32Max
                ELSE IF WLt(W(1000000), v) THEN W(0)
                ELSE W(1000000 \div WInt(v))

\* scale_rate: the microsecond period of a value and its unit suffix
scale_rate(v, suf) ==
    LET u == IF suf.some THEN ToUpperChar(suf.v) ELSE "M"
    IN  CASE u = "S" ->
                IF WLt(WDiv1000(WDiv1000(U32Max)), v) THEN U32Max
                ELSE WMul1000(WMul1000(v))
          [] u = "M" ->
                IF WLt(WDiv1000(U32Max), v) THEN U32Max ELSE WMul1000(v)
          [] u = "U" -> v
          [] u = "K" ->
                IF v = W(0) THEN U32Max
                ELSE IF WLt(W(1000), v) THEN W(1)
                ELSE W(1000 \div WInt(v))
          [] u = "H" ->
                IF v = W(0) THEN U32Max
                ELSE IF WLt(W(1000000), v) THEN W(1)
                ELSE W(1000000 \div WInt(v))

\* the closure of parse_clock_event on the hexadecimal digits v
convert_hex_u16(v) ==
    Let(from_str_radix_16(v),
        LAMBDA x : IF x.some THEN Accept(x.v)
                   ELSE Reject("number too large to fit in target type"))

\* parse_clock_event converting the last four digits of the run: the value
\* modulo 2^16
parse_clock_event_last_four(s) ==
    AndThen(Many1(s, HexDigits),
            LAMBDA v : convert_hex_u16(IF Len(v) > 4 THEN Drop(v, Len(v) - 4)
                                       ELSE v))

\* parse_clock_event: a run of hexadecimal digits converted to a u16
parse_clock_event(s) == AndThen(Many1(s, HexDigits), convert_hex_u16)

\* parse_time_freq that refuses a character other than a unit after the
\* digits
parse_time_freq_strict(s) ==
    Then(parse_int_u32(s), LAMBDA val :
        IF val.rest # "" /\ Head(val.rest) \notin CharsOf("sSmMuUkKhH,")
        THEN Err(TRUE, "unknown suffix")
        ELSE Map(Optional(OneOf(val.rest, CharsOf("sSmMuUkKhH")), val.rest),
                 LAMBDA suf : scale_rate(val.v, suf)))

\* parse_time_freq: digits and an optional unit suffix, scaled
parse_time_freq(s) ==
    Then(parse_int_u32(s), LAMBDA val :
        Map(Optional(OneOf(val.rest, CharsOf("sSmMuUkKhH")), val.rest),
            LAMBDA suf : scale_rate(val.v, suf)))

\* the closure of parse_periodic_imm deciding on the first letter
periodic_keyword_by_initial(v) ==
    Let(to_uppercase(Take(v, 1)),
        LAMBDA k : IF k = "T" THEN Accept(TRUE)
                   ELSE IF k = "F" THEN Accept(FALSE)
                   ELSE Reject("unknown keyword"))

\* the closure of parse_periodic_imm on the letters v
periodic_keyword(v) ==
    Let(to_uppercase(v),
        LAMBDA k : IF k \in {"TRUE", "T"} THEN Accept(TRUE)
                   ELSE IF k \in {"FALSE", "F"} THEN Accept(FALSE)
                   ELSE Reject("unknown keyword"))

\* parse_periodic_imm: the optional ",TRUE/FALSE" of a periodic event
parse_periodic_imm(s) ==
    Map(Optional(Then(Char(s, ","), LAMBDA comma :
                     AndThen(Many1(comma.rest, Letters), periodic_keyword)),
                 s),
        LAMBDA v : unwrap_or(v, TRUE))

\* parse_ops trying the one-character tokens first
parse_ops_short_first(s) ==
    Or(With(Char(s, ">"), "GT"),
    Or(With(Char(s, "<"), "LT"),
    Or(With(Char(s, "="), "Eq"),
    Or(With(Char(s, "*"), "All"),
    Or(With(Attempt(String(s, "<=")), "LEq"),
    Or(With(Attempt(String(s, ">=")), "GEq"),
       With(Attempt(String(s, "!=")), "NEq")))))))

\* parse_ops: the comparison of a state event, two-character tokens first
parse_ops(s) ==
    Or(With(Attempt(String(s, "<=")), "LEq"),
    Or(With(Attempt(String(s, ">=")), "GEq"),
    Or(With(Attempt(String(s, "!=")), "NEq"),
    Or(With(Char(s, ">"), "GT"),
    Or(With(Char(s, "<"), "LT"),
    Or(With(Char(s, "="), "Eq"),
       With(Char(s, "*"), "All")))))))

\* char(',').with(parse_time_freq())
comma_time_freq(s) ==
    Then(Char(s, ","), LAMBDA comma : parse_time_freq(comma.rest))

\* parse_periodic_rate: the ",rate[,imm]" part: <<period, immediate>>
parse_periodic_rate(s) ==
    Then(Optional(comma_time_freq(s), s), LAMBDA r :
        Map(parse_periodic_imm(r.rest),
            LAMBDA i : <<unwrap_or(r.v, W(1000000)), i>>))

\* parse_clock_type: ',' and one of e, h, s
parse_clock_type(s) ==
    Then(Char(s, ","), LAMBDA comma :
        Or(With(OneOf(comma.rest, {"e", "E"}), "Either"),
        Or(With(OneOf(comma.rest, {"h", "H"}), "Hardware"),
           With(OneOf(comma.rest, {"s", "S"}), "Software"))))

parse_never(s) == With(OneOf(s, {"n", "N"}), Never)

parse_immediate(s) == With(OneOf(s, {"i", "I"}), Immediate)

parse_periodic(s) ==
    Then(OneOf(s, {"p", "P"}), LAMBDA l :
        Map(parse_periodic_rate(l.rest),
            LAMBDA v : Periodic(v[1], v[2], FALSE)))

\* parse_periodic_filt building the event with skip_dups: false
parse_periodic_filt_keeping_dups(s) ==
    Then(OneOf(s, {"q", "Q"}), LAMBDA l :
        Map(parse_periodic_rate(l.rest),
            LAMBDA v : Periodic(v[1], v[2], FALSE)))

parse_periodic_filt(s) ==
    Then(OneOf(s, {"q", "Q"}), LAMBDA l :
        Map(parse_periodic_rate(l.rest),
            LAMBDA v : Periodic(v[1], v[2], TRUE)))

\* parse_clock with the clock type wrapped in attempt: a comma that no type
\* letter follows is left for the delay
parse_clock_backtracking(s) ==
    Then(OneOf(s, {"e", "E"}), LAMBDA l :
    Then(Char(l.rest, ","), LAMBDA comma :
    Then(parse_clock_event(comma.rest), LAMBDA event :
    Then(Optional(Attempt(parse_clock_type(event.rest)), event.rest), LAMBDA ct :
        Map(Optional(comma_time_freq(ct.rest), ct.rest),
            LAMBDA r : Clock(event.v, unwrap_or(ct.v, ClockType_default),
                             unwrap_or(r, W(0))))))))

parse_clock(s) ==
    Then(OneOf(s, {"e", "E"}), LAMBDA l :
    Then(Char(l.rest, ","), LAMBDA comma :
    Then(parse_clock_event(comma.rest), LAMBDA event :
    Then(Optional(parse_clock_type(event.rest), event.rest), LAMBDA ct :
        Map(Optional(comma_time_freq(ct.rest), ct.rest),
            LAMBDA r : Clock(event.v, unwrap_or(ct.v, ClockType_default),
                             unwrap_or(r, W(0))))))))

parse_state(s) ==
    Then(OneOf(s, {"s", "S"}), LAMBDA l :
    Then(Char(l.rest, ","), LAMBDA c1 :
    Then(parse_int_u32(c1.rest), LAMBDA device :
    Then(Char(device.rest, ","), LAMBDA c2 :
    Then(parse_int_u16(c2.rest), LAMBDA value :
    Then(comma_time_freq(value.rest), LAMBDA delay :
    Then(Char(delay.rest, ","), LAMBDA c4 :
        Map(parse_ops(c4.rest),
            LAMBDA expr : State(device.v, value.v, delay.v, expr)))))))))

\* the choice of the six event forms
event_forms(s) ==
    Or(parse_never(s),
    Or(parse_immediate(s),
    Or(parse_periodic(s),
    Or(parse_periodic_filt(s),
    Or(parse_clock(s), parse_state(s))))))

\* event::parser with the '@' stage wrapped in attempt: a failure after '@'
\* falls back to Event::Default
event_parser_recovering(s) ==
    Or(Attempt(Then(Char(s, "@"), LAMBDA at : event_forms(at.rest))),
       Value(s, Default))

\* event::parser: '@' and one of the event forms, or Event::Default
event_parser(s) ==
    Or(Then(Char(s, "@"), LAMBDA at : event_forms(at.rest)),
       Value(s, Default))

-----------------------------------------------------------------------------
(* Requests (mod.rs): the request parser and Request::canonical.           *)

Request(device, property, range, event) ==
    [device |-> device, property |-> property, range |-> range, event |-> event]

\* Request::canonical with the field keyword written before the range
Request_canonical_field_first(r) ==
    Let(Property_canonical(r.property),
        LAMBDA pf : r.device \o pf[1] \o pf[2] \o Range_canonical(r.range)
                             \o Event_canonical(r.event))

\* Request::canonical leaving the property to the qualifier: the property
\* keyword is not written
Request_canonical_no_property(r) ==
    Let(Property_canonical(r.property),
        LAMBDA pf : r.device \o Range_canonical(r.range) \o pf[2]
                             \o Event_canonical(r.event))

\* Request::canonical: format!("{}{}{}{}{}", device, property keyword,
\* range, field keyword, event)
Request_canonical(r) ==
    Let(Property_canonical(r.property),
        LAMBDA pf : r.device \o pf[1] \o Range_canonical(r.range) \o pf[2]
                             \o Event_canonical(r.event))

\* the parser p that parse builds: device, then the optional property, the
\* range and the event
request_parser(drf) ==
    Then(device_parser(drf), LAMBDA d :
    Then(Map(Optional(parse_property(d.v.prop, d.rest), d.rest),
             LAMBDA p : unwrap_or(p, d.v.prop)), LAMBDA p :
    Then(range_parser(p.rest), LAMBDA range :
        Map(event_parser(range.rest),
            LAMBDA event : Request(d.v.device, p.v, range.v, event)))))

\* Result<Request, _>
Parsed(r) == [ok |-> TRUE, v |-> r]

Failed(msg) == [ok |-> FALSE, msg |-> msg]

\* parse asking for the end of the input after the event
parse_to_end(drf) ==
    Let(request_parser(drf),
        LAMBDA r : IF r.ok /\ r.rest = "" THEN Parsed(r.v)
                   ELSE IF r.ok THEN Failed("unexpected parse")
                   ELSE Failed(r.msg))

\* parse: Ok(p.parse(drf)?.0), the unconsumed rest of the input is dropped
parse(drf) ==
    Let(request_parser(drf),
        LAMBDA r : IF r.ok THEN Parsed(r.v) ELSE Failed(r.msg))

-----------------------------------------------------------------------------
(* Input texts.  Numerals are written with up to MaxZeros leading zeros.   *)

MaxZeros == 1

RECURSIVE Zeros(_)
Zeros(n) == IF n = 0 THEN "" ELSE "0" \o Zeros(n - 1)

Padded(numerals) == {Zeros(k) \o n : k \in 0..MaxZeros, n \in numerals}

\* 16-bit indices around the ends of the u16 range
IndexNumerals == Padded({"0", "1", "2", "3", "65535", "65536"})

\* 32-bit offsets and lengths around the ends of the u32 range
ByteNumerals ==
    Padded({"0", "1", "2", "294967295", "294967296", "4000000000",
            "4294967294", "4294967295", "4294967296"})

\* values around the clipping points of the five units
TimeNumerals ==
    Padded({"0", "1", "2", "3", "10", "1000", "1001", "4294", "4295", "1000000",
            "1000001", "4294967", "4294968", "4294967295", "4294967296",
            "99999999999"})

UnitChars == CharsOf("sSmMuUkKhH")

\* what may follow the digits of a time-freq: nothing, a unit, or another
\* character
UnitTexts == {""} \cup UnitChars \cup {"z", "-"}

TimeFreqTexts == {n \o u : n \in TimeNumerals, u \in UnitTexts}

RangeTexts ==
    {"", "[]", "[:]", "{}", "{:}", "[A]", "{A}", "{:-1}", "[1", "{1", "[1:2", "]"}
    \cup {"[" \o s \o "]" : s \in IndexNumerals}
    \cup {"[" \o s \o ":]" : s \in IndexNumerals}
    \cup {"[:" \o e \o "]" : e \in IndexNumerals}
    \cup {"[" \o s \o ":" \o e \o "]" : s \in IndexNumerals, e \in IndexNumerals}
    \cup {"{" \o o \o "}" : o \in ByteNumerals}
    \cup {"{" \o o \o ":}" : o \in ByteNumerals}
    \cup {"{:" \o l \o "}" : l \in ByteNumerals}
    \cup {"{" \o o \o ":" \o l \o "}" : o \in ByteNumerals, l \in ByteNumerals}

ClockIdTexts == {"0", "2", "02", "8f", "89ab", "000089ab", "FFFF", "10000", "12345"}

ClockTypeTexts == CharsOf("eEhHsS")

SomeTimeFreqTexts == {"0", "100", "1s", "10H", "2k", "4295S", "7u", "4294967296"}

OpTexts == {"<=", ">=", "!=", ">", "<", "=", "*", "==", "~"}

EventTexts ==
    {"", "@", "@N", "@n", "@I", "@i", "@X", "@P", "@pD", "@Q", "@QD", "@P,",
     "@P,junk", "@P,1000,", "@P,1s,TASK", "@Q,1s,FLOAT", "@P,TRUE", "@p,T",
     "@P,FALSE", "@P,F", "@E", "@E,", "@E,g", "@E,1234,a", "@S", "@S,1,2,3",
     "@S,1,2", "@S,1", "@S,1,65536,0,=", "@S,4294967296,1,0,=",
     "@q", "@qD", "@q,5", "@q,5,f", "@Q,1s,F", "@Q,2k,true", "@P,1s,tRuE",
     "@p,3u,fAlSe", "@P,1s,TRUEX", "@P,1s,Tx", "@P,1s,T1", "@P,1s,1", "@Q,1s,",
     "@P,,T", "@q,false", "@P,4294967295U,F", "@E,FFFF,S,4294967295U",
     "@E,12345,e", "@E,12345,h,1s", "@E,10000,S,0", "@E,000089ab,s,1s",
     "@E,0000,E,5", "@E,00FFFF", "@E,0FFFFF", "@S,", "@S,1,", "@S,1,2,",
     "@S,1,2,3,", "@S,,2,3,=", "@S,1,,3,=", "@S,1,2,,=", "@S,1,2,=",
     "@S,1234,0,1s,=", "@S,4294967295,65535,4294967295U,!=",
     "@s,0,0,0,*", "@S,1,2,3,<=x", "@S,1,2,3,=<", "@S,1,2,3,!", "@S,1,2,3,<>"}
    \cup {"@" \o l \o "," \o tf : l \in {"P", "Q", "p"}, tf \in TimeFreqTexts}
    \cup {"@P," \o tf \o "," \o i :
            tf \in SomeTimeFreqTexts, i \in {"T", "t", "TRUE", "f", "False", "FALSE"}}
    \cup {"@E," \o id : id \in ClockIdTexts}
    \cup {"@" \o l \o "," \o id \o "," \o ct :
            l \in {"E", "e"}, id \in ClockIdTexts, ct \in ClockTypeTexts}
    \cup {"@E," \o id \o "," \o tf : id \in ClockIdTexts, tf \in SomeTimeFreqTexts}
    \cup {"@E,2," \o tf : tf \in TimeFreqTexts}
    \cup {"@E,2," \o ct \o "," \o tf : ct \in {"h", "E"}, tf \in TimeFreqTexts}
    \cup {"@S,1234,10," \o tf \o "," \o op : tf \in SomeTimeFreqTexts, op \in OpTexts}
    \cup {"@S,1,2," \o tf \o ",=" : tf \in TimeFreqTexts}

QualifierChars == {":", "?", "_", "|", "&", "@", "$", "~"}

RequestDevices ==
    {"M" \o q \o "OUTTMP" : q \in QualifierChars}
    \cup {"0:123456", "0|12", "Z:a:b", "1:123456", "M.OUTTMP", "M:"}

RequestProperties ==
    {"", ".RAW", ".raw", ".ON", ".PRIMARY", ".STATUS", ".READING", ".Setting",
     ".CONTROL", ".ANALOG", ".DIGITAL", ".DESC", ".INDEX", ".LNGNAM", ".LSTNAM",
     ".BOGUS", "."}

RequestRanges == {"", "[]", "[0:0]", "[0:3]", "[2:1]", "[7]", "{1:2}", "{:0}", "["}

RequestEvents ==
    {"", "@N", "@e,02", "@P,1S", "@Q,2k,f", "@S,1234,0,1s,=", "@P,", "@P,1000,",
     "@X"}

RequestTails == {"", "#x"}

RequestTexts ==
    {d \o p \o r \o e \o t :
        d \in RequestDevices, p \in RequestProperties, r \in RequestRanges,
        e \in RequestEvents, t \in RequestTails}

-----------------------------------------------------------------------------
(* The state machine: a text is parsed, the result rendered in canonical   *)
(* form, the canonical text parsed again and rendered again.               *)

Pending == [ok |-> FALSE, msg |-> "pending"]

Start(texts) ==
    /\ text \in texts
    /\ stage = "input"
    /\ req = Pending
    /\ canon = ""
    /\ req2 = Pending
    /\ canon2 = ""

\* one call of a parser on the input text
ParseStep(result) ==
    /\ stage = "input"
    /\ req' = result
    /\ stage' = IF result.ok THEN "parsed" ELSE "failed"
    /\ UNCHANGED <<text, canon, req2, canon2>>

\* one call of canonical() on the parsed value
RenderStep(rendering) ==
    /\ stage = "parsed"
    /\ canon' = rendering
    /\ stage' = "rendered"
    /\ UNCHANGED <<text, req, req2, canon2>>

\* one call of a parser on the canonical text
ReparseStep(result) ==
    /\ stage = "rendered"
    /\ req2' = result
    /\ stage' = IF result.ok THEN "reparsed" ELSE "refailed"
    /\ UNCHANGED <<text, req, canon, canon2>>

\* one call of canonical() on the value parsed from the canonical text
RerenderStep(rendering) ==
    /\ stage = "reparsed"
    /\ canon2' = rendering
    /\ stage' = "done"
    /\ UNCHANGED <<text, req, canon, req2>>

Init == Start(RequestTexts)

Parse == ParseStep(parse(text))

Canonical == RenderStep(Request_canonical(req.v))

Reparse == ReparseStep(parse(canon))

Recanonical == RerenderStep(Request_canonical(req2.v))

Next == Parse \/ Canonical \/ Reparse \/ Recanonical

Spec == Init /\ [][Next]_vars

\* the range parser alone
InitRange == Start(RangeTexts)

RangeParse == ParseStep(range_parser(text))

RangeCanonical == RenderStep(Range_canonical(req.v))

RangeReparse == ReparseStep(range_parser(canon))

NextRange == RangeParse \/ RangeCanonical \/ RangeReparse

SpecRange == InitRange /\ [][NextRange]_vars

\* the event parser alone
InitEvent == Start(EventTexts)

EventParse == ParseStep(event_parser(text))

EventCanonical == RenderStep(Event_canonical(req.v))

EventReparse == ReparseStep(event_parser(canon))

NextEvent == EventParse \/ EventCanonical \/ EventReparse

SpecEvent == InitEvent /\ [][NextEvent]_vars

\* the device parser alone
DeviceTexts ==
    {"", "M", "0", "M:", "0|"}
    \cup {f \o q \o n \o x :
            f \in {"M", "z", "0", "1", "9", "_", ":"},
            q \in QualifierChars \cup {".", "-", "A", "0", "#", ";"},
            n \in {"", "x", "OUTTMP", "123456", "12ab", "OUT-TMP", "a:b<c>;_d"},
            x \in {"", ".VAL", "[0:3]", "{0:}", "#TMP", "~TMP", "+", ",TMP", "/"}}

InitDevice == Start(DeviceTexts)

DeviceParse == ParseStep(device_parser(text))

SpecDevice == InitDevice /\ [][DeviceParse]_vars

\* the names of test_property_parsing, each as written there, in lower case
\* and capitalised
AliasSpellings ==
    {<<"READING", "reading", "Reading">>, <<"READ", "read", "Read">>,
     <<"PRREAD", "prread", "Prread">>, <<"SETTING", "setting", "Setting">>,
     <<"SET", "set", "Set">>, <<"PRSET", "prset", "Prset">>,
     <<"STATUS", "status", "Status">>,
     <<"BASIC_STATUS", "basic_status", "Basic_status">>,
     <<"STS", "sts", "Sts">>, <<"PRBSTS", "prbsts", "Prbsts">>,
     <<"CONTROL", "control", "Control">>,
     <<"BASIC_CONTROL", "basic_control", "Basic_control">>,
     <<"CTRL", "ctrl", "Ctrl">>, <<"PRBCTL", "prbctl", "Prbctl">>,
     <<"ANALOG", "analog", "Analog">>,
     <<"ANALOG_ALARM", "analog_alarm", "Analog_alarm">>,
     <<"AA", "aa", "Aa">>, <<"PRANAB", "pranab", "Pranab">>,
     <<"DIGITAL", "digital", "Digital">>,
     <<"DIGITAL_ALARM", "digital_alarm", "Digital_alarm">>,
     <<"DA", "da", "Da">>, <<"PRDABL", "prdabl", "Prdabl">>,
     <<"DESCRIPTION", "description", "Description">>,
     <<"DESC", "desc", "Desc">>, <<"PRDESC", "prdesc", "Prdesc">>,
     <<"INDEX", "index", "Index">>,
     <<"LONG_NAME", "long_name", "Long_name">>,
     <<"LNGNAM", "lngnam", "Lngnam">>, <<"PRLNAM", "prlnam", "Prlnam">>,
     <<"ALARM_LIST_NAME", "alarm_list_name", "Alarm_list_name">>,
     <<"LSTNAM", "lstnam", "Lstnam">>, <<"PRALNM", "pralnm", "Pralnm">>}

\* the property parser after a qualifier: a qualifier character, '.', a
\* name (a property name, a field name, another name or none) and a tail
PropertyTexts ==
    {q \o "." \o n \o x :
        q \in QualifierChars,
        n \in UNION {{a[1], a[2], a[3]} : a \in AliasSpellings}
                \cup {"RAW", "raw", "ON", "SCALED", "ALL", "PRIMARY", "MIN",
                      "BOGUS", "VAL", "X_Y", "_", ""},
        x \in {"", "[0:3]", ".RAW", "@N"}}

InitProperty == Start(PropertyTexts)

\* parse_property with the property of the qualifier, as parse calls it
PropertyParse ==
    ParseStep(Then(parse_prop_symbol(text),
                   LAMBDA q : parse_property(q.v, q.rest)))

SpecProperty == InitProperty /\ [][PropertyParse]_vars

-----------------------------------------------------------------------------
(* Properties of the request parser and of Request::canonical, stated of   *)
(* Spec.                                                                   *)

TextParsed == stage # "input"

Rendered == stage \in {"rendered", "reparsed", "refailed", "done"}

Reparsed == stage \in {"reparsed", "refailed", "done"}

\* the default property and sub-field each qualifier character stands for
QualifierProperty(q) ==
    CASE q \in {":", "?"} -> [kind |-> "Reading", field |-> "Scaled"]
      [] q = "_" -> [kind |-> "Setting", field |-> "Scaled"]
      [] q = "|" -> [kind |-> "Status", field |-> "All"]
      [] q = "&" -> [kind |-> "Control"]
      [] q = "@" -> [kind |-> "Analog", field |-> "All"]
      [] q = "$" -> [kind |-> "Digital", field |-> "All"]
      [] q = "~" -> [kind |-> "Description"]

\* the '.NAME' stage on what the device left: absent when no '.' follows
PropertyStage(d) ==
    IF StartsWith(d.rest, ".") THEN parse_property(d.v.prop, d.rest)
    ELSE Value(d.rest, d.v.prop)

OpensRange(s) == StartsWith(s, "[") \/ StartsWith(s, "{")

\* a bracket stage that consumed its opening character and failed
BracketFails(s) ==
    \/ StartsWith(s, "[") /\ ~parse_array_range(s).ok
    \/ StartsWith(s, "{") /\ ~parse_byte_range(s).ok

\* an event stage that consumed '@' and failed
AtFails(s) == StartsWith(s, "@") /\ ~event_forms(Tail(s)).ok

\* the parse returned an error and nothing else
NoRequest == ~req.ok /\ req = Failed(req.msg)

\* C1: for every text that parses, the canonical text parses again, to a
\* Request with the same device, property, range and event.
C1_RoundTrip ==
    Reparsed =>
        /\ req2.ok
        /\ req2.v.device = req.v.device
        /\ req2.v.property = req.v.property
        /\ req2.v.range = req.v.range
        /\ req2.v.event = req.v.event

\* C2: for every text that parses, the canonical text of the re-parsed
\* canonical text is defined and is the canonical text itself.
C2_CanonicalIdempotent ==
    /\ stage # "refailed"
    /\ stage = "done" => canon2 = canon

\* C3: canonical() is the device text, the property keyword, the range
\* text, the field keyword (empty for Control, Description, Index, LongName
\* and AlarmList) and the event text, in this order; M|OUTTMP[]@e,02
\* renders as M:OUTTMP.STATUS[].ALL@E,2,E,0U.
C3_CanonicalConcatenation ==
    Rendered =>
        /\ canon = req.v.device \o Property_canonical(req.v.property)[1]
                     \o Range_canonical(req.v.range)
                     \o Property_canonical(req.v.property)[2]
                     \o Event_canonical(req.v.event)
        /\ req.v.property.kind \in PlainKinds
               => Property_canonical(req.v.property)[2] = ""
        /\ text = "M|OUTTMP[]@e,02" => canon = "M:OUTTMP.STATUS[].ALL@E,2,E,0U"

C3_Witness ==
    /\ stage = "rendered"
    /\ text = "M|OUTTMP[]@e,02"
    /\ req.v.range = Full
    /\ req.v.event.kind = "Clock"
    /\ canon = "M:OUTTMP.STATUS[].ALL@E,2,E,0U"

\* C4: a '.NAME' that is, in upper case, an entry of the field table of the
\* qualifier's family parses, keeps the family and sets the sub-field to the
\* table's value (the text ends at the name).
C4_FieldNameSetsSubField ==
    TextParsed =>
        Let(device_parser(text), LAMBDA d :
            (d.ok /\ d.v.prop.kind \in FieldKinds /\ StartsWith(d.rest, "."))
            => Let(Many1(Tail(d.rest), NameChars), LAMBDA n :
                   (/\ n.ok
                    /\ n.rest = ""
                    /\ lookup(to_uppercase(n.v), FIELDS(d.v.prop.kind)).some)
                   => /\ req.ok
                      /\ req.v.property =
                            Prop(d.v.prop.kind,
                                 lookup(to_uppercase(n.v),
                                        FIELDS(d.v.prop.kind)).v)))

\* C7: once an optional stage has consumed its opening character ('.', '['
\* or '{', '@'), a failure inside the stage fails the whole parse: no default
\* is taken and no Request is returned; "@P,", "@P,1000," and "@X" fail.
C7_NoRecoveryAfterCommit ==
    TextParsed =>
        /\ Let(device_parser(text), LAMBDA d :
               d.ok =>
                 Let(PropertyStage(d), LAMBDA p :
                     IF ~p.ok THEN NoRequest
                     ELSE /\ BracketFails(p.rest) => NoRequest
                          /\ ~BracketFails(p.rest)
                                => (AtFails(range_parser(p.rest).rest)
                                        => NoRequest)))
        /\ \A q \in QualifierChars : \A e \in {"@P,", "@P,1000,", "@X"} :
               text = "M" \o q \o "OUTTMP" \o e => ~req.ok

C7_Witness ==
    /\ stage = "failed"
    /\ text = "M:OUTTMP[0:3]@P,1000,"
    /\ AtFails("@P,1000,")
    /\ NoRequest

-----------------------------------------------------------------------------
(* Properties of the range parser, stated of SpecRange.                    *)

RECURSIVE Contains(_, _)
Contains(s, ch) == s # "" /\ (Head(s) = ch \/ Contains(Tail(s), ch))

\* a + b with the carry kept: a high half of 2^16 or more tells a sum above
\* 2^32 - 1
WAdd(a, b) ==
    LET lo == a[2] + b[2]
    IN  <<a[1] + b[1] + (lo \div Half), lo % Half>>

RawParsed == stage # "input" /\ req.ok /\ req.v.kind = "Raw"

\* C5: every Raw range a byte form parses to has, when its length is
\* present, a length of at least 1 and offset + length at most 2^32 - 1.
C5_RawWithin32Bits ==
    (RawParsed /\ req.v.length.some) =>
        /\ WLt(W(0), req.v.length.v)
        /\ WFits(WAdd(req.v.offset, req.v.length.v))

\* C5 as amended: the forms with a colon give, when the length is present,
\* a length of at least 1 and offset + length at most 2^32 - 1; the form {N}
\* gives length 1 for every 32-bit N, so that offset + length is 2^32 for
\* N = 2^32 - 1 and within 32 bits for every other N.
C5_RawColonFormsWithin32Bits ==
    RawParsed =>
        IF Contains(text, ":")
        THEN req.v.length.some =>
                /\ WLt(W(0), req.v.length.v)
                /\ WFits(WAdd(req.v.offset, req.v.length.v))
        ELSE /\ req.v.length = Some(W(1))
             /\ WFits(WAdd(req.v.offset, W(1))) <=> req.v.offset # U32Max

C5_Witness ==
    /\ stage = "parsed"
    /\ text = "{1:4294967294}"
    /\ req.v = Raw(W(1), Some(<<Half - 1, Half - 2>>))
    /\ WAdd(req.v.offset, req.v.length.v) = U32Max

-----------------------------------------------------------------------------
(* Properties of the event parser, stated of SpecEvent.                    *)

HasPrefix(s, pre) == Len(s) >= Len(pre) /\ Take(s, Len(pre)) = pre

HasSuffix(s, suf) == Len(s) >= Len(suf) /\ Drop(s, Len(s) - Len(suf)) = suf

\* the texts that lead to a time-freq field: the period of a periodic event
\* and the delay of a clock event
TimeFreqPrefixes == {"@P,", "@p,", "@Q,", "@E,2,h,", "@E,2,E,"}

\* the delay of a state event lies between this prefix and this suffix
StatePrefix == "@S,1,2,"

StateSuffix == ",="

InStateEvent(s) == HasPrefix(s, StatePrefix) /\ HasSuffix(s, StateSuffix)

\* the text of the time-freq field of s ("" when s has none)
TimeFreqField(s) ==
    IF InStateEvent(s)
    THEN Take(Drop(s, Len(StatePrefix)),
              Len(s) - Len(StatePrefix) - Len(StateSuffix))
    ELSE IF \E pre \in TimeFreqPrefixes : HasPrefix(s, pre)
    THEN Drop(s, Len(CHOOSE pre \in TimeFreqPrefixes : HasPrefix(s, pre)))
    ELSE ""

FieldDigits(s) == Take(TimeFreqField(s), RunLen(TimeFreqField(s), Digits))

FieldTail(s) == Drop(TimeFreqField(s), RunLen(TimeFreqField(s), Digits))

\* a numeral without its leading zeros
RECURSIVE Significant(_)
Significant(n) ==
    IF Len(n) > 1 /\ Head(n) = "0" THEN Significant(Tail(n)) ELSE n

\* a <= b for numerals of one length
RECURSIVE LexLeq(_, _)
LexLeq(a, b) ==
    \/ a = ""
    \/ DigitVal(Head(a)) < DigitVal(Head(b))
    \/ Head(a) = Head(b) /\ LexLeq(Tail(a), Tail(b))

\* a <= b for numerals without leading zeros
DecimalLeq(a, b) == Len(a) < Len(b) \/ (Len(a) = Len(b) /\ LexLeq(a, b))

FitsU32Text(n) == DecimalLeq(Significant(n), "4294967295")

\* the numeral as a u32, 2^32 - 1 when it is larger
Clipped(n) == IF FitsU32Text(n) THEN U32(n) ELSE U32Max

\* the period of a frequency of n in a unit of base per second
PeriodOf(n, base) ==
    IF Significant(n) = "0" THEN U32Max
    ELSE IF DecimalLeq(Significant(n), base)
    THEN W(WInt(U32(base)) \div WInt(U32(n)))
    ELSE W(1)

\* the microseconds that the numeral n with the unit u ("" for none) stands
\* for, clipped to the 32-bit range
ExpectedMicros(n, u) ==
    CASE u \in {"s", "S"} -> Clipped(n \o "000000")
      [] u \in {"m", "M", ""} -> Clipped(n \o "000")
      [] u \in {"u", "U"} -> Clipped(n)
      [] u \in {"k", "K"} -> PeriodOf(n, "1000")
      [] u \in {"h", "H"} -> PeriodOf(n, "1000000")

\* the time value of an event: the period or the delay
TimeValue(e) == IF e.kind = "Periodic" THEN e.period ELSE e.delay

\* a time-freq field of digits and at most a unit
UnitCase ==
    /\ stage # "input"
    /\ FieldDigits(text) # ""
    /\ FieldTail(text) \in {""} \cup UnitChars

\* a time-freq field of digits and a character that is no unit
UnknownSuffixCase ==
    /\ stage # "input"
    /\ FieldDigits(text) # ""
    /\ FieldTail(text) \in {"z", "-"}

C8_UnknownSuffixRejected == UnknownSuffixCase => ~req.ok

\* C8 as amended: digits of a time-freq field followed by a character that
\* is no unit end the field: in a periodic event and in a clock event the
\* parse succeeds when the digits fit 32 bits, the value is scaled as
\* milliseconds and the character is left unconsumed; in a state event,
\* where a comma must follow the field, it is a parse error.
C8_UnknownSuffixLeftBehind ==
    UnknownSuffixCase =>
        IF InStateEvent(text) THEN ~req.ok
        ELSE /\ req.ok <=> FitsU32Text(FieldDigits(text))
             /\ req.ok => /\ req.rest = FieldTail(text)
                          /\ TimeValue(req.v) =
                                ExpectedMicros(FieldDigits(text), "")

C8_Witness ==
    /\ stage = "parsed"
    /\ text = "@Q,1000z"
    /\ req.rest = "z"
    /\ req.v = Periodic(U32("1000000"), TRUE, TRUE)

\* hexadecimal ids of at most 16 bits, as written in the input texts
ValidClockIds == {"0", "2", "02", "8f", "89ab", "000089ab", "FFFF"}

ClockIdValue(id) ==
    CASE id = "0" -> 0
      [] id \in {"2", "02"} -> 2
      [] id = "8f" -> 8 * 16 + 15
      [] id \in {"89ab", "000089ab"} -> ((8 * 16 + 9) * 16 + 10) * 16 + 11
      [] id = "FFFF" -> U16Max

ClockTypeOf(ct) ==
    CASE ct \in {"e", "E"} -> "Either"
      [] ct \in {"h", "H"} -> "Hardware"
      [] ct \in {"s", "S"} -> "Software"

\* time-freq texts whose digits fit 32 bits, with what they stand for
ValidDelays == {<<"0", "">>, <<"100", "">>, <<"1", "s">>, <<"10", "H">>,
                <<"2", "k">>, <<"4295", "S">>, <<"7", "u">>}

\* "@E,<id>" gives Either and no delay
ClockIdOnly ==
    \A id \in ValidClockIds :
        text = "@E," \o id
            => req.ok /\ req.v = Clock(ClockIdValue(id), "Either", W(0))

\* "@E,<id>,<type>" gives the type and no delay
ClockIdType ==
    \A id \in ValidClockIds : \A ct \in ClockTypeTexts :
        text \in {"@E," \o id \o "," \o ct, "@e," \o id \o "," \o ct}
            => req.ok /\ req.v = Clock(ClockIdValue(id), ClockTypeOf(ct), W(0))

\* "@E,<id>,<type>,<time-freq>" gives the type and the scaled delay
ClockIdTypeDelay ==
    \A ct \in {"h", "E"} :
        (UnitCase /\ HasPrefix(text, "@E,2," \o ct \o ",")
                  /\ FitsU32Text(FieldDigits(text)))
            => /\ req.ok
               /\ req.v = Clock(2, ClockTypeOf(ct),
                                ExpectedMicros(FieldDigits(text), FieldTail(text)))

\* C9: the clock type and the delay of a clock event are each optional:
\* "@E,<id>", "@E,<id>,<type>", "@E,<id>,<type>,<time-freq>" and
\* "@E,<id>,<time-freq>", the last giving Either and the scaled delay.
C9_ClockTypeAndDelayOptional ==
    stage # "input" =>
        /\ ClockIdOnly
        /\ ClockIdType
        /\ ClockIdTypeDelay
        /\ \A id \in ValidClockIds : \A tf \in ValidDelays :
               text = "@E," \o id \o "," \o tf[1] \o tf[2]
                   => /\ req.ok
                      /\ req.v = Clock(ClockIdValue(id), "Either",
                                       ExpectedMicros(tf[1], tf[2]))

\* C9 as amended: the delay of a clock event is optional and the clock type
\* is optional when no delay follows: "@E,<id>", "@E,<id>,<type>" and
\* "@E,<id>,<type>,<time-freq>" parse as stated; "@E,<id>,<time-freq>" is a
\* parse error, the comma after the id being followed by no type letter.
C9_DelayNeedsClockType ==
    stage # "input" =>
        /\ ClockIdOnly
        /\ ClockIdType
        /\ ClockIdTypeDelay
        /\ \A id \in ValidClockIds : \A tf \in ValidDelays :
               text = "@E," \o id \o "," \o tf[1] \o tf[2] => ~req.ok

C9_Witness ==
    /\ stage = "failed"
    /\ text = "@E,2,100"
    /\ ~req.ok

-----------------------------------------------------------------------------
(* Properties of the device parser, stated of SpecDevice.                  *)

CharAt(s, i) == SubSeq(s, i, i)

\* the characters a device name may hold, by the first character
NameClass(first) ==
    IF first = "0" THEN CharsOf("0123456789")
    ELSE CharsOf("abcdefghijklmnopqrstuvwxyz")
             \cup CharsOf("ABCDEFGHIJKLMNOPQRSTUVWXYZ")
             \cup CharsOf("0123456789") \cup CharsOf("_-:<>;")

\* the kind of property each qualifier character stands for
QualifierKind(q) ==
    CASE q \in {":", "?"} -> "Reading"
      [] q = "_" -> "Setting"
      [] q = "|" -> "Status"
      [] q = "&" -> "Control"
      [] q = "@" -> "Analog"
      [] q = "$" -> "Digital"
      [] q = "~" -> "Description"

\* the part of the text a successful parse consumed
Consumed == Take(text, Len(text) - Len(req.rest))

\* a first character, a qualifier and one character of the name
WellLed ==
    /\ Len(text) >= 3
    /\ Head(text) \in {"0"} \cup CharsOf("abcdefghijklmnopqrstuvwxyz")
                            \cup CharsOf("ABCDEFGHIJKLMNOPQRSTUVWXYZ")
    /\ CharAt(text, 2) \in {":", "?", "_", "|", "&", "@", "$", "~"}
    /\ CharAt(text, 3) \in NameClass(Head(text))

\* C11: each of the eight qualifier characters gives its property, and the
\* stored device text is the first character, ':' and the name, so that
\* texts that differ in the qualifier alone give the same Device.
C11_QualifierAndDeviceText ==
    stage # "input" =>
        /\ WellLed => req.ok
        /\ req.ok =>
             /\ req.v.prop.kind = QualifierKind(CharAt(text, 2))
             /\ req.v.device = Head(text) \o ":" \o Drop(Consumed, 2)
             /\ \A q \in {":", "?", "_", "|", "&", "@", "$", "~"} :
                    device_parser(Head(text) \o q \o Drop(text, 2)).v.device
                        = req.v.device

C11_Witness ==
    /\ stage = "parsed"
    /\ text = "0$123456.VAL"
    /\ req.v = [device |-> "0:123456", prop |-> Prop("Digital", "All")]

\* C12: after the first character and the qualifier the parser takes the
\* longest run of allowed characters and leaves exactly the rest of the
\* text: what it consumed and what it left make up the text, every name
\* character is allowed, and the rest is empty or starts with a character
\* that is not allowed.
C12_MaximalMunch ==
    (stage # "input" /\ req.ok) =>
        /\ Consumed \o req.rest = text
        /\ Len(Consumed) >= 3
        /\ \A i \in 3..Len(Consumed) : CharAt(text, i) \in NameClass(Head(text))
        /\ req.rest = "" \/ Head(req.rest) \notin NameClass(Head(text))
        /\ req.v.device = Head(text) \o ":" \o Drop(Consumed, 2)

C12_Witness ==
    /\ stage = "parsed"
    /\ text = "M:a:b<c>;_d.VAL"
    /\ req.v.device = "M:a:b<c>;_d"
    /\ req.rest = ".VAL"

\* C13: the device parser fails, with no Device, when the first character
\* is a digit other than 0, when no qualifier character follows it, or when
\* no allowed name character follows the qualifier.
C13_DeviceRejected ==
    stage # "input" =>
        ((\/ Len(text) < 3
          \/ Head(text) \in CharsOf("123456789")
          \/ CharAt(text, 2) \notin {":", "?", "_", "|", "&", "@", "$", "~"}
          \/ CharAt(text, 3) \notin NameClass(Head(text)))
         => ~req.ok /\ req.v = None)

C13_Witness ==
    /\ stage = "failed"
    /\ text = "1:123456"
    /\ req.v = None

-----------------------------------------------------------------------------
(* Properties of the property parser, stated of SpecProperty.              *)

\* the tail of a text of PropertyTexts and the name before it
PropertyTail(s) ==
    IF \E x \in {"[0:3]", ".RAW", "@N"} : HasSuffix(s, x)
    THEN CHOOSE x \in {"[0:3]", ".RAW", "@N"} : HasSuffix(s, x)
    ELSE ""

PropertyName(s) == Take(Drop(s, 2), Len(s) - 2 - Len(PropertyTail(s)))

\* the names of each kind of property
AliasesOf(kind) ==
    CASE kind = "Reading" -> {"READING", "READ", "PRREAD"}
      [] kind = "Setting" -> {"SETTING", "SET", "PRSET"}
      [] kind = "Status" -> {"STATUS", "BASIC_STATUS", "STS", "PRBSTS"}
      [] kind = "Control" -> {"CONTROL", "BASIC_CONTROL", "CTRL", "PRBCTL"}
      [] kind = "Analog" -> {"ANALOG", "ANALOG_ALARM", "AA", "PRANAB"}
      [] kind = "Digital" -> {"DIGITAL", "DIGITAL_ALARM", "DA", "PRDABL"}
      [] kind = "Description" -> {"DESCRIPTION", "DESC", "PRDESC"}
      [] kind = "Index" -> {"INDEX"}
      [] kind = "LongName" -> {"LONG_NAME", "LNGNAM", "PRLNAM"}
      [] kind = "AlarmList" -> {"ALARM_LIST_NAME", "LSTNAM", "PRALNM"}

PropertyKinds ==
    {"Reading", "Setting", "Status", "Control", "Analog", "Digital",
     "Description", "Index", "LongName", "AlarmList"}

\* a name that is, whatever its case, a property name
IsAlias(n) == \E a \in AliasSpellings : n \in {a[1], a[2], a[3]}

\* the kind of property the name n stands for
AliasKind(n) ==
    CHOOSE k \in PropertyKinds :
        \E a \in AliasSpellings : n \in {a[1], a[2], a[3]} /\ a[1] \in AliasesOf(k)

\* the property of a kind with the kind's default sub-field
DefaultProperty(kind) ==
    IF kind \in {"Reading", "Setting"} THEN [kind |-> kind, field |-> "Scaled"]
    ELSE IF kind \in {"Status", "Analog", "Digital"}
    THEN [kind |-> kind, field |-> "All"]
    ELSE [kind |-> kind]

\* the text holds a property name after the qualifier
AliasCase == stage # "input" /\ IsAlias(PropertyName(text))

\* C14: a property name after a Reading qualifier is accepted whatever its
\* kind; after any other qualifier it is accepted when it names the
\* qualifier's kind and fails the parse (mismatched properties) otherwise.
C14_ReadingAcceptsAnyOthersSameKind ==
    AliasCase =>
        IF \/ QualifierKind(Head(text)) = "Reading"
           \/ QualifierKind(Head(text)) = AliasKind(PropertyName(text))
        THEN req.ok /\ req.v.kind = AliasKind(PropertyName(text))
        ELSE ~req.ok /\ req.msg = "mismatched properties"

C14_Witness ==
    /\ stage = "failed"
    /\ text = "_.READING"
    /\ req.msg = "mismatched properties"

\* C15: each of the 32 property names, in any case, gives one of the 10
\* kinds of property with the kind's default sub-field and is consumed
\* whole, when the qualifier's property is of that kind (and under the
\* Reading qualifier, which accepts every kind).
C15_AliasGivesDefaultProperty ==
    /\ Cardinality(AliasSpellings) = 32
    /\ \A a \in AliasSpellings :
           Cardinality({k \in PropertyKinds : a[1] \in AliasesOf(k)}) = 1
    /\ (/\ AliasCase
        /\ \/ QualifierKind(Head(text)) = AliasKind(PropertyName(text))
           \/ QualifierKind(Head(text)) = "Reading")
       => /\ req.ok
          /\ req.v = DefaultProperty(AliasKind(PropertyName(text)))
          /\ req.rest = PropertyTail(text)

C15_Witness ==
    /\ stage = "parsed"
    /\ text = "|.sts[0:3]"
    /\ req.v = [kind |-> "Status", field |-> "All"]
    /\ req.rest = "[0:3]"

\* C16: after the qualifier of a property without sub-fields ('&' Control,
\* '~' Description) a name is accepted only when it is a property name of
\* that kind; every other name, a field name or an unknown name, fails the
\* parse.
C16_PlainQualifierOwnNamesOnly ==
    (stage # "input" /\ Head(text) \in {"&", "~"}) =>
        (req.ok <=> /\ IsAlias(PropertyName(text))
                    /\ AliasKind(PropertyName(text)) = QualifierKind(Head(text)))

C16_Witness ==
    /\ stage = "failed"
    /\ text = "&.RAW"
    /\ req.msg = "unknown property"

-----------------------------------------------------------------------------
(* Properties of the forms of a range, stated of SpecRange.                *)

\* the value of a numeral of at most 9 digits
RECURSIVE NumeralValue(_)
NumeralValue(n) ==
    IF n = "" THEN 0
    ELSE NumeralValue(Take(n, Len(n) - 1)) * 10 + DigitVal(CharAt(n, Len(n)))

\* a numeral of IndexNumerals that is at most 65535
FitsU16Text(n) == NumeralValue(n) <= 65535

\* a numeral as <<a, b>>, its value being a * 10^5 + b
DecParts(n) ==
    IF Len(Significant(n)) <= 5 THEN <<0, NumeralValue(Significant(n))>>
    ELSE <<NumeralValue(Take(Significant(n), Len(Significant(n)) - 5)),
           NumeralValue(Drop(Significant(n), Len(Significant(n)) - 5))>>

\* a u32 of the model as <<a, b>>, its value being a * 10^5 + b
WordDecParts(w) ==
    <<2 * ((w[1] * 32768) \div 100000)
        + (2 * ((w[1] * 32768) % 100000) + w[2]) \div 100000,
      (2 * ((w[1] * 32768) % 100000) + w[2]) % 100000>>

\* the sum of two numerals is at most 2^32 - 1 = 42949 * 10^5 + 67295
SumFitsU32(o, l) ==
    \/ DecParts(o)[1] + DecParts(l)[1]
          + (DecParts(o)[2] + DecParts(l)[2]) \div 100000 < 42949
    \/ /\ DecParts(o)[1] + DecParts(l)[1]
             + (DecParts(o)[2] + DecParts(l)[2]) \div 100000 = 42949
       /\ (DecParts(o)[2] + DecParts(l)[2]) % 100000 <= 67295

\* the parse gave the range r and left nothing
Gives(r) == req.ok /\ req.v = r /\ req.rest = ""

\* the numerals of the input texts, without leading zeros
IndexDecimals == {Significant(n) : n \in IndexNumerals}

ByteDecimals == {Significant(n) : n \in ByteNumerals}

\* the canonical text is pre, the decimal form of the 16-bit n, and post
WritesIndex(out, pre, n, post) ==
    \E m \in IndexDecimals : NumeralValue(m) = n /\ out = pre \o m \o post

\* the canonical text is pre, the decimal form of the 32-bit w, and post
WritesWord(out, pre, w, post) ==
    \E m \in ByteDecimals : DecParts(m) = WordDecParts(w) /\ out = pre \o m \o post

\* C17: the forms [], [:], [0:], {}, {:} and {0:} each parse to the full
\* range with nothing left over, and the full range is written [].
C17_EmptyFormsAreFull ==
    (stage # "input" /\ text \in {"[]", "[:]", "[0:]", "{}", "{:}", "{0:}"}) =>
        /\ Gives(Full)
        /\ Rendered => canon = "[]"

C17_Witness ==
    /\ stage = "rendered"
    /\ text = "{0:}"
    /\ req.v = Full
    /\ canon = "[]"

\* C18: [s] gives Array{s, Some(s)}; [s:] with s > 0 gives Array{s, None};
\* [:e] gives Array{0, Some(e)}; [s:e] gives Array{s, Some(e)} when s <= e
\* and fails otherwise; an index above 65535 fails in every form.
C18_ArrayForms ==
    stage # "input" =>
        \A s \in IndexNumerals :
            /\ text = "[" \o s \o "]" =>
                  IF FitsU16Text(s)
                  THEN Gives(Array(NumeralValue(s), Some(NumeralValue(s))))
                  ELSE ~req.ok
            /\ (text = "[" \o s \o ":]" /\ NumeralValue(s) > 0) =>
                  IF FitsU16Text(s) THEN Gives(Array(NumeralValue(s), None))
                  ELSE ~req.ok
            /\ text = "[:" \o s \o "]" =>
                  IF FitsU16Text(s) THEN Gives(Array(0, Some(NumeralValue(s))))
                  ELSE ~req.ok
            /\ \A e \in IndexNumerals :
                  text = "[" \o s \o ":" \o e \o "]" =>
                      IF /\ FitsU16Text(s)
                         /\ FitsU16Text(e)
                         /\ NumeralValue(s) <= NumeralValue(e)
                      THEN Gives(Array(NumeralValue(s), Some(NumeralValue(e))))
                      ELSE ~req.ok

C18_Witness ==
    /\ stage = "failed"
    /\ text = "[3:2]"
    /\ req.msg = "bad range"

\* C19: {:l} and {o:l} fail when l = 0; {o:l} fails when o + l is above
\* 2^32 - 1; both are accepted when l >= 1 and o + l is at most 2^32 - 1.
C19_ByteLengthForms ==
    stage # "input" =>
        /\ \A o \in ByteNumerals, l \in ByteNumerals :
              /\ text = "{:" \o l \o "}" =>
                    (req.ok <=> Significant(l) # "0" /\ FitsU32Text(l))
              /\ text = "{" \o o \o ":" \o l \o "}" =>
                    (req.ok <=> Significant(l) # "0" /\ SumFitsU32(o, l))
        /\ text = "{1:4294967294}" => req.ok
        /\ text = "{4000000000:294967296}" => ~req.ok

C19_Witness ==
    /\ stage = "failed"
    /\ text = "{4000000000:294967296}"
    /\ req.msg = "bad range"

\* C20: the canonical text of a range is [] for Full; nothing for
\* Array{0, Some(0)}; [s] for Array{s, Some(e)} with s = e and [s:e]
\* otherwise; [s:] for Array{s, None}; {o} for Raw{o, Some(1)}, {o:l} for
\* Raw{o, Some(l)} with another l, and {o:} for Raw{o, None}.
C20_RangeCanonicalTable ==
    Rendered =>
        /\ req.v.kind = "Full" => canon = "[]"
        /\ (req.v.kind = "Array" /\ req.v.end_index.some) =>
              IF req.v.start_index = 0 /\ req.v.end_index.v = 0 THEN canon = ""
              ELSE IF req.v.start_index = req.v.end_index.v
              THEN WritesIndex(canon, "[", req.v.start_index, "]")
              ELSE \E c \in 2..(Len(canon) - 1) :
                      /\ WritesIndex(Take(canon, c), "[", req.v.start_index, ":")
                      /\ WritesIndex(Drop(canon, c), "", req.v.end_index.v, "]")
        /\ (req.v.kind = "Array" /\ ~req.v.end_index.some) =>
              WritesIndex(canon, "[", req.v.start_index, ":]")
        /\ (req.v.kind = "Raw" /\ req.v.length.some) =>
              IF WordDecParts(req.v.length.v) = <<0, 1>>
              THEN WritesWord(canon, "{", req.v.offset, "}")
              ELSE \E c \in 2..(Len(canon) - 1) :
                      /\ WritesWord(Take(canon, c), "{", req.v.offset, ":")
                      /\ WritesWord(Drop(canon, c), "", req.v.length.v, "}")
        /\ (req.v.kind = "Raw" /\ ~req.v.length.some) =>
              WritesWord(canon, "{", req.v.offset, ":}")
        /\ text = "[1:1]" => canon = "[1]"
        /\ text = "{1:1}" => canon = "{1}"

C20_Witness ==
    /\ stage = "rendered"
    /\ text = "[1:1]"
    /\ req.v = Array(1, Some(1))
    /\ canon = "[1]"

-----------------------------------------------------------------------------
(* Properties of the forms of an event, stated of SpecEvent.               *)

\* the number of commas of a text
RECURSIVE CommaCount(_)
CommaCount(s) ==
    IF s = "" THEN 0
    ELSE (IF Head(s) = "," THEN 1 ELSE 0) + CommaCount(Tail(s))

\* the text is '@', one of the letters, and whatever follows
LedBy(letters) ==
    /\ stage # "input"
    /\ Len(text) >= 2
    /\ Head(text) = "@"
    /\ CharAt(text, 2) \in letters

\* C21: a periodic event without a time-freq field has a period of
\* 1,000,000 microseconds; without an imm-flag field it has immediate =
\* true; skip_dups is true exactly when the letter is Q or q.
C21_PeriodicDefaults ==
    LedBy({"P", "p", "Q", "q"}) =>
        /\ req.ok =>
              /\ req.v.kind = "Periodic"
              /\ req.v.skip_dups <=> CharAt(text, 2) \in {"Q", "q"}
              /\ CommaCount(text) <= 1 => req.v.immediate
        /\ (Len(text) = 2 \/ CharAt(text, 3) # ",") =>
              /\ req.ok
              /\ req.rest = Drop(text, 2)
              /\ WordDecParts(req.v.period) = <<10, 0>>
              /\ req.v.immediate

C21_Witness ==
    /\ stage = "parsed"
    /\ text = "@q"
    /\ req.v = Periodic(<<15, 16960>>, TRUE, TRUE)

\* 2^32 - 1 as <<a, b>>, its value being a * 10^5 + b
MaxDecParts == <<42949, 67295>>

DecPartsLeq(p, q) == p[1] < q[1] \/ (p[1] = q[1] /\ p[2] <= q[2])

\* min(p * 1000, 2^32 - 1) for p at most 2^32 - 1
SaturatingTimes1000(p) ==
    IF DecPartsLeq(<<p[1] * 1000 + (p[2] * 1000) \div 100000,
                     (p[2] * 1000) % 100000>>, MaxDecParts)
    THEN <<p[1] * 1000 + (p[2] * 1000) \div 100000, (p[2] * 1000) % 100000>>
    ELSE MaxDecParts

\* 2^32 - 1 for p = 0, else max(1, floor(base / p)), for a base of at most
\* 10^6
SaturatingPeriod(p, base) ==
    IF p = <<0, 0>> THEN MaxDecParts
    ELSE IF p[1] > 10 \/ p[1] * 100000 + p[2] > base THEN <<0, 1>>
    ELSE <<(base \div (p[1] * 100000 + p[2])) \div 100000,
           (base \div (p[1] * 100000 + p[2])) % 100000>>

\* the saturating reference result of the value p and the unit u
ReferenceScale(p, u) ==
    CASE u \in {"s", "S"} -> SaturatingTimes1000(SaturatingTimes1000(p))
      [] u \in {"m", "M", ""} -> SaturatingTimes1000(p)
      [] u \in {"u", "U"} -> p
      [] u \in {"k", "K"} -> SaturatingPeriod(p, 1000)
      [] u \in {"h", "H"} -> SaturatingPeriod(p, 1000000)

\* C22: for a 32-bit value and a unit the scaler gives the saturating
\* reference result and never wraps around: 4294S gives 4,294,000,000,
\* 4295S gives 2^32 - 1, 1000001H gives 1 and 0K gives 2^32 - 1.
C22_ScaleRateSaturates ==
    (UnitCase /\ req.ok) =>
        /\ WordDecParts(TimeValue(req.v))
              = ReferenceScale(DecParts(FieldDigits(text)), FieldTail(text))
        /\ text = "@P,4294S" => WordDecParts(req.v.period) = <<42940, 0>>
        /\ text = "@P,4295S" => req.v.period = <<65535, 65535>>
        /\ text = "@P,1000001H" => req.v.period = <<0, 1>>
        /\ text = "@P,0K" => req.v.period = <<65535, 65535>>

C22_Witness ==
    /\ stage = "parsed"
    /\ text = "@P,1000001H"
    /\ req.v = Periodic(<<0, 1>>, TRUE, FALSE)

\* the text before the first comma
RECURSIVE UpToComma(_)
UpToComma(s) ==
    IF s = "" \/ Head(s) = "," THEN "" ELSE Take(s, 1) \o UpToComma(Tail(s))

\* the comma-separated fields of a text
RECURSIVE Fields(_)
Fields(s) ==
    IF Len(UpToComma(s)) = Len(s) THEN <<s>>
    ELSE <<UpToComma(s)>> \o Fields(Drop(s, Len(UpToComma(s)) + 1))

\* a non-empty run of the characters of digits
IsRun(s, digits) ==
    /\ s # ""
    /\ \A i \in 1..Len(s) : \E d \in 1..Len(digits) : CharAt(s, i) = CharAt(digits, d)

HexDigitValue(ch) ==
    CHOOSE d \in 0..15 :
        ch \in {CharAt("0123456789abcdef", d + 1), CharAt("0123456789ABCDEF", d + 1)}

\* the value of a hexadecimal numeral of at most 7 digits
RECURSIVE HexValue(_)
HexValue(n) ==
    IF n = "" THEN 0
    ELSE HexValue(Take(n, Len(n) - 1)) * 16 + HexDigitValue(CharAt(n, Len(n)))

\* the second field of the text is a run of hexadecimal digits
ClockIdCase ==
    /\ LedBy({"E", "e"})
    /\ Len(Fields(text)) >= 2
    /\ IsRun(Fields(text)[2], "0123456789abcdefABCDEF")

\* C23: the id of a clock event is accepted exactly when the value of its
\* run of hexadecimal digits fits 16 bits, leading zeros allowed; a larger
\* value fails the parse of the event, also when further fields follow.
C23_ClockIdFits16Bits ==
    ClockIdCase =>
        /\ Len(Significant(Fields(text)[2])) > 4 => ~req.ok
        /\ (Len(Significant(Fields(text)[2])) <= 4 /\ Len(Fields(text)) = 2)
              => req.ok
        /\ req.ok => req.v.event = HexValue(Significant(Fields(text)[2]))
        /\ text = "@E,000089ab" => req.ok /\ req.v.event = 35243

C23_Witness ==
    /\ stage = "failed"
    /\ text = "@E,12345,h,1s"
    /\ ~req.ok

\* a time-freq field: digits that fit 32 bits and at most a unit letter
IsTimeFreq(f) ==
    \E k \in 1..Len(f) :
        /\ IsRun(Take(f, k), "0123456789")
        /\ FitsU32Text(Take(f, k))
        /\ Drop(f, k) = "" \/ (Len(f) = k + 1 /\ IsRun(Drop(f, k), "sSmMuUkKhH"))

\* the longest comparison token that starts the field ("" for none)
LongestToken(f) ==
    IF \E tok \in {"<=", ">=", "!="} : HasPrefix(f, tok) THEN Take(f, 2)
    ELSE IF \E tok \in {"<", ">", "=", "*"} : HasPrefix(f, tok) THEN Take(f, 1)
    ELSE ""

TokenOp(tok) ==
    CASE tok = "<=" -> "LEq" [] tok = ">=" -> "GEq" [] tok = "!=" -> "NEq"
      [] tok = "<" -> "LT" [] tok = ">" -> "GT" [] tok = "=" -> "Eq"
      [] tok = "*" -> "All"

\* the text has the four fields of a state event, the comparison apart
StateFields ==
    /\ Len(Fields(text)) = 5
    /\ IsRun(Fields(text)[2], "0123456789") /\ FitsU32Text(Fields(text)[2])
    /\ IsRun(Fields(text)[3], "0123456789")
    /\ DecimalLeq(Significant(Fields(text)[3]), "65535")
    /\ IsTimeFreq(Fields(text)[4])

\* C24: a state event needs its four comma-separated fields in order (a
\* 32-bit device, a 16-bit value, a time-freq delay, a comparison), a
\* missing field failing the parse; the comparison is the longest token
\* that matches: <=, >= and != give LEq, GEq and NEq; <, >, = and * alone
\* give LT, GT, Eq and All.
C24_StateFieldsAndComparison ==
    LedBy({"S", "s"}) =>
        /\ req.ok <=> StateFields /\ LongestToken(Fields(text)[5]) # ""
        /\ req.ok =>
              /\ req.v.kind = "State"
              /\ WordDecParts(req.v.device) = DecParts(Fields(text)[2])
              /\ req.v.value = NumeralValue(Significant(Fields(text)[3]))
              /\ req.v.expr = TokenOp(LongestToken(Fields(text)[5]))
              /\ req.rest = Drop(Fields(text)[5],
                                 Len(LongestToken(Fields(text)[5])))

C24_Witness ==
    /\ stage = "parsed"
    /\ text = "@S,1234,10,1s,<="
    /\ req.v.expr = "LEq"
    /\ req.rest = ""

\* m is the decimal numeral, without leading zeros, of the value p
IsDecimalOf(m, p) ==
    /\ IsRun(m, "0123456789")
    /\ Significant(m) = m
    /\ Len(m) <= 10
    /\ DecParts(m) = p

\* f is the decimal numeral of the 32-bit w and the unit U
IsMicrosOf(f, w) ==
    /\ HasSuffix(f, "U")
    /\ IsDecimalOf(Take(f, Len(f) - 1), WordDecParts(w))

\* m is the hexadecimal numeral, in upper case and without leading zeros,
\* of the 16-bit n
IsHexOf(m, n) ==
    /\ IsRun(m, "0123456789ABCDEF")
    /\ Significant(m) = m
    /\ Len(m) <= 4
    /\ HexValue(m) = n

\* C25: the canonical text of an event is empty for Default, @N for Never,
\* @I for Immediate, @P or @Q with ,<period>U and ,TRUE or ,FALSE for
\* Periodic, @E,<id in upper-case hexadecimal>,<E|H|S>,<delay>U for Clock
\* and @S,<device>,<value>,<delay>U,<comparison> for State.
C25_EventCanonicalForms ==
    Rendered =>
        /\ req.v.kind = "Default" => canon = ""
        /\ req.v.kind = "Never" => canon = "@N"
        /\ req.v.kind = "Immediate" => canon = "@I"
        /\ req.v.kind = "Periodic" =>
              /\ Len(Fields(canon)) = 3
              /\ Fields(canon)[1] = (IF req.v.skip_dups THEN "@Q" ELSE "@P")
              /\ IsMicrosOf(Fields(canon)[2], req.v.period)
              /\ Fields(canon)[3] = (IF req.v.immediate THEN "TRUE" ELSE "FALSE")
        /\ req.v.kind = "Clock" =>
              /\ Len(Fields(canon)) = 4
              /\ Fields(canon)[1] = "@E"
              /\ IsHexOf(Fields(canon)[2], req.v.event)
              /\ Fields(canon)[3] =
                    (CASE req.v.clk_type = "Either" -> "E"
                       [] req.v.clk_type = "Hardware" -> "H"
                       [] req.v.clk_type = "Software" -> "S")
              /\ IsMicrosOf(Fields(canon)[4], req.v.delay)
        /\ req.v.kind = "State" =>
              /\ Len(Fields(canon)) = 5
              /\ Fields(canon)[1] = "@S"
              /\ IsDecimalOf(Fields(canon)[2], WordDecParts(req.v.device))
              /\ IsDecimalOf(Fields(canon)[3], <<0, req.v.value>>)
              /\ IsMicrosOf(Fields(canon)[4], req.v.delay)
              /\ \E tok \in {"<=", ">=", "!=", "<", ">", "=", "*"} :
                    Fields(canon)[5] = tok /\ TokenOp(tok) = req.v.expr
        /\ text = "@S,1234,0,1s,=" => canon = "@S,1234,0,1000000U,="

C25_Witness ==
    /\ stage = "rendered"
    /\ text = "@E,000089ab,s,1s"
    /\ canon = "@E,89AB,S,1000000U"

\* the longest prefix of s made of the characters of chars
RECURSIVE LeadingRun(_, _)
LeadingRun(s, chars) ==
    IF s = "" \/ ~IsRun(Take(s, 1), chars) THEN ""
    ELSE Take(s, 1) \o LeadingRun(Tail(s), chars)

\* the leading letters of a field
Word(f) ==
    LeadingRun(f, "abcdefghijklmnopqrstuvwxyzABCDEFGHIJKLMNOPQRSTUVWXYZ")

\* the spellings of TRUE and T, and of FALSE and F, in any case
TrueWords ==
    {"T", "t"}
    \cup {a \o b \o c \o d :
            a \in {"T", "t"}, b \in {"R", "r"}, c \in {"U", "u"}, d \in {"E", "e"}}

FalseWords ==
    {"F", "f"}
    \cup {a \o b \o c \o d \o e :
            a \in {"F", "f"}, b \in {"A", "a"}, c \in {"L", "l"},
            d \in {"S", "s"}, e \in {"E", "e"}}

\* C26: in a periodic event the field after the first comma must start
\* with a digit, so that an imm-flag without a time-freq fails the parse;
\* after a time-freq a second comma must be followed by letters that spell,
\* in any case, TRUE, T, FALSE or F: another word, or no letter, fails.
C26_ImmFlagAfterTimeFreq ==
    (LedBy({"P", "p", "Q", "q"}) /\ Len(Fields(text)) >= 2
                                 /\ Len(Fields(text)[1]) = 2) =>
        /\ ~IsRun(LeadingRun(Fields(text)[2], "0123456789"), "0123456789")
              => ~req.ok
        /\ (Len(Fields(text)) = 3 /\ IsTimeFreq(Fields(text)[2])) =>
              /\ req.ok <=> Word(Fields(text)[3]) \in TrueWords \cup FalseWords
              /\ req.ok =>
                    /\ req.v.immediate <=> Word(Fields(text)[3]) \in TrueWords
                    /\ req.rest = Drop(Fields(text)[3], Len(Word(Fields(text)[3])))

C26_Witness ==
    /\ stage = "failed"
    /\ text = "@P,1s,TASK"
    /\ req.msg = "unknown keyword"

\* C27: the event parser applied to the canonical text of an event
\* succeeds, gives an event equal to the one rendered and leaves nothing.
C27_EventRoundTrip ==
    Reparsed =>
        /\ stage = "reparsed"
        /\ req2.ok
        /\ req2.v = req.v
        /\ req2.rest = ""

C27_Witness ==
    /\ stage = "reparsed"
    /\ text = "@Q,2k,true"
    /\ canon = "@Q,500U,TRUE"
    /\ req2.v = Periodic(<<0, 500>>, TRUE, TRUE)

-----------------------------------------------------------------------------
(* Round trip of a range, stated of SpecRange.                             *)

\* C28: the range parser applied to the canonical text of a range it
\* returned succeeds, gives an equal range and leaves nothing; it never
\* returns Array{0, None} or Raw{0, None}.
C28_RangeRoundTrip ==
    /\ (stage # "input" /\ req.ok) =>
          /\ req.v # Array(0, None)
          /\ req.v # Raw(<<0, 0>>, None)
    /\ Reparsed =>
          /\ stage = "reparsed"
          /\ req2.ok
          /\ req2.v = req.v
          /\ req2.rest = ""

C28_Witness ==
    /\ stage = "reparsed"
    /\ text = "{0:}"
    /\ canon = "[]"
    /\ req2.v = Full

-----------------------------------------------------------------------------
(* Round trip and end of input of a request, stated of Spec.               *)

C30_HashTailIgnored ==
    (stage = "parsed" /\ req.ok) =>
        \A t \in {"#", "#x", "#@N", "#[0:3]", "#.RAW", "#,T", "#0"} :
            parse(text \o t) = req

C30_Witness ==
    /\ stage = "parsed"
    /\ text = "M:OUTTMP[0:3]@P,1S#x"
    /\ req.v.event = Periodic(<<15, 16960>>, TRUE, FALSE)
    /\ parse("M:OUTTMP[0:3]@P,1S") = req

====
